---- MODULE Spec2Model ----
(***************************************************************************)
(* Medicaid_Provider_Spending: the build_datasets pipeline, the            *)
(* data_enricher HCPCS cache and the site backend, as state machines.      *)
(*                                                                         *)
(* The module holds several specifications over disjoint groups of         *)
(* variables:                                                              *)
(*   SpecPool   the bounded lookup pool (resolve_missing_npis,             *)
(*              resolve_missing_hcpcs): rounds, dispatch, shutdown flag,   *)
(*              cache writes and their storage errors;                     *)
(*   SpecRate   the rate gate and the in-request retry loop on a clock;    *)
(*   SpecCache  the HCPCS cache tables of build_datasets and data_enricher *)
(*              with codes in both letter cases;                           *)
(*   SpecMain   main(): completeness checks, the two builders, artifacts,  *)
(*              upload, report and triage.                                 *)
(*   SpecCall   one call of a function of the pipeline or of the site     *)
(*              backend, with its arguments and its result;                *)
(*   SpecDisk   one producer of a file output (parquet writer, CSV export, *)
(*              search index build) and the paths it touches.              *)
(* Each specification keeps the other groups' variables at their initial   *)
(* values.                                                                 *)
(***************************************************************************)
EXTENDS Integers, Sequences, FiniteSets, TLC

(***************************************************************************)
(* Bounds of the model.                                                    *)
(***************************************************************************)
NumIds == 3
MaxConcurrency == 2
MaxRetryRounds == 1
MaxRetryDelay == 1
MaxBatchSize == 2
MaxRps == 2
MaxRetries == 2
MaxRetryAfter == 1
MaxTime == 4
MaxDelayRound == 10
MaxChunks == 6
MaxBatchLen == 3
MaxBulkRows == 2
MaxRows == 2
MaxUpserts == 3
MaxFailures == 7

\* records of one HCPCS code in an upstream answer
MaxRecords == 2
MaxWriterBatch == 2
\* Duration counts seconds in a u64; the model keeps checked_mul's overflow test
\* at a width of 30 bits
DurationMaxSecs == 1073741823

(***************************************************************************)
(* Helpers.                                                                *)
(***************************************************************************)
Max(a, b) == IF a >= b THEN a ELSE b

Min(a, b) == IF a <= b THEN a ELSE b

RECURSIVE Pow2(_)
Pow2(n) == IF n <= 0 THEN 1 ELSE 2 * Pow2(n - 1)

Range(s) == {s[i] : i \in 1..Len(s)}

RECURSIVE Flatten(_)
Flatten(ss) == IF ss = <<>> THEN <<>> ELSE Head(ss) \o Flatten(Tail(ss))

Ids == 1..NumIds

VARIABLES
    \* ---- lookup pool (resolve_missing_npis / resolve_missing_hcpcs) ----
    pool_kind,                 \* "npi" or "hcpcs": which of the two pools runs
    args,                      \* the command-line arguments the pool reads
    missing,                   \* missing_npis / missing_codes handed to the pool
    pc,                        \* the pool's position
    round_npis,                \* round_npis / round_codes
    queue,                     \* jobs of the round not yet dispatched
    in_flight,                 \* jobs in the FuturesUnordered
    next_round_npis,           \* next_round_npis / next_round_codes
    retry_round,
    retry_failover_triggered,
    interrupted,
    seed_i,                    \* iterations done of the initial dispatch loop
    countdown_left,            \* seconds left of the retry cool-down
    cache,                     \* status of each identifier in the cache table
    tally,                     \* found / not_found / failed counters
    pool_result,               \* "running", "ok" (Ok((interrupted, rows))) or "err"
    shutdown_requested,        \* the AtomicBool set by the Ctrl-C handler
    owed,                      \* identifiers in flight when the flag was set, not yet written
    at_stop,                   \* what the pool held at the moment the flag was set
    round_log,                 \* identifiers that resolved to Error in this round; those of
                               \* the round before and what its queue still held at its end;
                               \* whether a cache write has failed
    \* ---- rate gate and in-request retries (wait_for_rate_slot, fetch_*) ----
    rate_args,                 \* requests_per_second and max_retries
    rate_kind,                 \* "single": resolve_npi / resolve_hcpcs jobs; "batch": resolve_hcpcs_batch jobs
    now,                       \* Instant::now(), in units of min_interval (of one second when R = 0)
    next_slot,                 \* the shared next-slot instant
    gate_holder,               \* the job holding the next_slot mutex, 0 if free
    rjob,                      \* each job's position, attempt number, backoff and wake-up time
    last_start,                \* start time of the latest upstream request, -1 if none
    min_gap,                   \* smallest gap seen between two successive request starts, -1 if none
    \* ---- HCPCS cache table (HcpcsCache of build_datasets and of data_enricher) ----
    cache_impl,                \* "build_datasets" or "data_enricher": whose HcpcsCache this is
    hcpcs_cache,               \* the rows of table hcpcs_cache
    last_write,                \* the latest write: method, code and whether it returned Ok
    npi_cache,                 \* table npi_cache of NpiCache: the status of each NPI's row
    \* ---- main(): one run of build_datasets ----
    margs,                     \* reset_map, rebuild_map, skip_api
    store,                     \* status of each identifier in npi_cache and in hcpcs_cache
    files,                     \* cache DBs, mapping CSVs and columnar artifacts on disk
    reports,                   \* the unresolved-identifier report and the triage outputs
    main_pc,                   \* main's position
    should_build,              \* should_build_npi_map / should_build_hcpcs_map
    builder,                   \* build_npi_mapping / build_hcpcs_mapping: position and locals
    main_interrupted,          \* main's `interrupted`
    upload_invoked,            \* maybe_upload_outputs was called
    main_result,               \* "running", "ok" or "err"
    at_start,                  \* the cache statuses and flags the run started from
    \* ---- one call of a function of the pipeline ----
    call,                      \* the function called and its arguments
    ret,                       \* <<>> until the call returns, then <<its result>>
    \* ---- one producer of a file output, and the paths it touches ----
    disk,                      \* the content of the final path, the temp path
                               \* and the index directory
    producer                   \* the producer: its kind, position and buffers

rateVars == <<rate_args, rate_kind, now, next_slot, gate_holder, rjob,
              last_start, min_gap>>

cacheVars == <<cache_impl, hcpcs_cache, last_write, npi_cache>>

poolVars == <<pool_kind, args, missing, pc, round_npis, queue, in_flight,
              next_round_npis, retry_round, retry_failover_triggered,
              interrupted, seed_i, countdown_left, cache, tally, pool_result,
              shutdown_requested, owed, at_stop, round_log>>

mainVars == <<margs, store, files, reports, main_pc, should_build, builder,
              main_interrupted, upload_invoked, main_result, at_start>>

\* the pool's variables other than the shutdown flag, which main() owns
poolLocal == <<pool_kind, args, missing, pc, round_npis, queue, in_flight,
               next_round_npis, retry_round, retry_failover_triggered,
               interrupted, seed_i, countdown_left, cache, tally, pool_result,
               owed, at_stop, round_log>>

callVars == <<call, ret>>

diskVars == <<disk, producer>>

vars == <<poolVars, rateVars, cacheVars, mainVars, callVars, diskVars>>

\* the variables each specification leaves alone
notPool == <<rateVars, cacheVars, mainVars, callVars, diskVars>>

notRate == <<poolVars, cacheVars, mainVars, callVars, diskVars>>

notCache == <<poolVars, rateVars, mainVars, callVars, diskVars>>

notMain == <<poolLocal, rateVars, cacheVars, callVars, diskVars>>

notCall == <<poolVars, rateVars, cacheVars, mainVars, diskVars>>

notDisk == <<poolVars, rateVars, cacheVars, mainVars, callVars>>

(***************************************************************************)
(* Pure functions of the pool.                                             *)
(***************************************************************************)
\* variant: the initial dispatch loop runs one iteration too many
EffectiveConcurrencyOffByOne(c) == Max(c, 1) + 1

\* args.concurrency.max(1)
EffectiveConcurrency(c) == Max(c, 1)

\* chunk_hcpcs_codes: consecutive chunks of batch_size.max(1) codes
RECURSIVE chunk_hcpcs_codes(_, _)
chunk_hcpcs_codes(codes, batch_size) ==
    LET size == Max(batch_size, 1) IN
    IF codes = <<>> THEN <<>>
    ELSE IF Len(codes) <= size THEN <<codes>>
    ELSE <<SubSeq(codes, 1, size)>> \o
         chunk_hcpcs_codes(SubSeq(codes, size + 1, Len(codes)), batch_size)

\* the jobs of a round: one identifier per job (NPI) or one batch per job (HCPCS)
RoundJobs(kind, ids, batch_size) ==
    IF kind = "npi" THEN [i \in 1..Len(ids) |-> <<ids[i]>>]
    ELSE chunk_hcpcs_codes(ids, Max(batch_size, 1))

\* base_retry_delay.checked_mul(1 << (retry_round - 1).min(20)); the overflow
\* branch (3600 s) needs a base above 2^44 s and is outside the model's range
RetryDelaySecs(base, round) ==
    LET factor == Pow2(Min(Max(round - 1, 0), 20))
    IN IF base > DurationMaxSecs \div factor THEN 3600 ELSE base * factor

\* variant: errors are replayed after one round more
can_retry_errors_one_more == retry_round <= args.failure_retry_rounds

\* retry_round < max_retry_rounds
can_retry_errors_again == retry_round < args.failure_retry_rounds

\* variant: the drain loop is left as soon as the flag is seen
DrainStopsOnFlag(flag, jobs) == jobs # {} /\ ~flag

\* the while-let drain loop runs as long as a job is in flight
DrainContinues(flag, jobs) == jobs # {}

\* variant: the dispatch after a completion does not look at the flag
MayDispatchNextIgnoringFlag(flag, failover) == ~failover

\* the guard of the dispatch after a completion
MayDispatchNext(flag, failover) == ~flag /\ ~failover

\* variant: the flag is not loaded after a completion
InterruptedWithoutFlagLoad(was, flag) == was

\* interrupted after the flag load that follows a completion
InterruptedAfterCompletion(was, flag) == was \/ flag

\* variant: identifiers that resolved to NotFound are queued for replay too
QueuedForRetryAlsoNotFound(result) == result \in {"Error", "NotFound"}

\* the match arm that may push the identifier to next_round_npis
QueuedForRetry(result) == result = "Error"

InFlightIds == UNION {Range(j) : j \in in_flight}


\* identifiers that have records in the local HCPCS fallback file
LocalFallback == {1}

\* what a job can report for one identifier; an HCPCS Found whose records do
\* not survive the retain on the requested code is handled as NotFound is
ResolveResults == {"Found", "NotFound", "Error"}

\* the status the completion handler writes to the cache for one result
WrittenStatus(kind, id, result) ==
    CASE result = "Found" -> "ok"
      [] result = "Error" -> "error"
      [] OTHER -> IF kind = "hcpcs" /\ id \in LocalFallback THEN "ok"
                  ELSE "not_found"

(***************************************************************************)
(* The rate gate and the in-request retry loop, on a clock. Time is counted *)
(* in units of min_interval = 1/R s when R > 0, so one second is R units;   *)
(* with R = 0 the unit is one second.                                       *)
(***************************************************************************)
RateJobs == {1, 2}

\* the codes of a batch job, queried one by one when the batch request fails
BatchCodes == {1, 2}

\* min_interval: zero when requests_per_second = 0, else 1/R s
MinInterval(R) == IF R = 0 THEN 0 ELSE 1

\* one second on the clock
Second(R) == IF R = 0 THEN 1 ELSE R

\* max_retries.max(1)
AttemptsWithoutFloor(max_retries) == max_retries

Attempts(max_retries) == Max(max_retries, 1)

\* status.is_success()
is_success(status) == status \in 200..299

\* the status codes the upstream answers with
StatusCodes == {200, 404, 503}

\* what one attempt gets back: a network error (no status), or a status; a
\* 2xx body is readable and decodable or not
Responses ==
    {[status |-> <<>>, body_ok |-> FALSE]} \cup
    {r \in [status : {<<s>> : s \in StatusCodes}, body_ok : BOOLEAN] :
        r.body_ok => is_success(r.status[1])}

\* 429, 500, 502, 503, 504
RetryableStatuses == {429, 500, 502, 503, 504}

\* variant: every status that is not a success is retried
is_retryable_status_always(status) == TRUE

is_retryable_status(status) == status \in RetryableStatuses

\* no fetch_* call of the job has returned yet
NoFetch == [attempts |-> 0, result |-> "none", exhausted |-> FALSE]

\* variant: the doubling has no cap
NextBackoffUncapped(backoff, R) == backoff + backoff

\* (backoff + backoff).min(60 s)
NextBackoff(backoff, R) == Min(backoff + backoff, 60 * Second(R))

RateIdle ==
    /\ rate_args = [requests_per_second |-> 0, max_retries |-> 0]
    /\ rate_kind = "single"
    /\ now = 0
    /\ next_slot = 0
    /\ gate_holder = 0
    /\ rjob = [w \in RateJobs |-> [pc |-> "done", phase |-> 0, attempt |-> 0,
                                   backoff |-> 0, wake |-> 0,
                                   response |-> <<>>, fetched |-> NoFetch]]
    /\ last_start = -1
    /\ min_gap = -1

RateInit ==
    /\ rate_args \in [requests_per_second : 0..MaxRps, max_retries : 0..MaxRetries]
    /\ rate_kind \in {"single", "batch"}
    /\ now = 0
    /\ next_slot = 0
    /\ gate_holder = 0
    /\ rjob = [w \in RateJobs |->
                 [pc |-> "gate", phase |-> IF rate_kind = "batch" THEN 0 ELSE 1,
                  attempt |-> 0, backoff |-> 0, wake |-> 0,
                  response |-> <<>>, fetched |-> NoFetch]]
    /\ last_start = -1
    /\ min_gap = -1

\* an upstream request of job w starts now: attempt n of a fetch_* call
StartRequest(w, n, backoff) ==
    /\ rjob' = [rjob EXCEPT ![w].pc = "in_request", ![w].attempt = n,
                            ![w].backoff = backoff, ![w].wake = 0,
                            ![w].response = <<>>]
    /\ last_start' = now
    /\ min_gap' = IF last_start = -1 THEN min_gap
                  ELSE IF min_gap = -1 THEN now - last_start
                  ELSE Min(min_gap, now - last_start)

\* variant: the gate never sleeps
MustSleepNever(slot, at) == FALSE

\* if *guard > now
MustSleep(slot, at) == slot > at

\* wait_for_rate_slot up to its sleep: an open gate is passed at once and the
\* fetch_* call sends its first attempt
GateEnter(w) ==
    /\ rjob[w].pc = "gate"
    /\ LET R == rate_args.requests_per_second IN
       IF MinInterval(R) = 0
       THEN /\ StartRequest(w, 1, Second(R))
            /\ UNCHANGED <<next_slot, gate_holder>>
       ELSE /\ gate_holder = 0
            /\ IF MustSleep(next_slot, now)
               THEN /\ gate_holder' = w
                    /\ rjob' = [rjob EXCEPT ![w].pc = "gate_sleep",
                                            ![w].wake = next_slot]
                    /\ UNCHANGED <<next_slot, last_start, min_gap>>
               ELSE /\ next_slot' = now + MinInterval(R)
                    /\ StartRequest(w, 1, Second(R))
                    /\ UNCHANGED gate_holder
    /\ UNCHANGED <<notRate, rate_args, rate_kind, now>>

\* the gate's sleep is over: next_slot := now + min_interval, the lock is
\* released and the first attempt is sent
GateWake(w) ==
    /\ rjob[w].pc = "gate_sleep"
    /\ now >= rjob[w].wake
    /\ next_slot' = now + MinInterval(rate_args.requests_per_second)
    /\ gate_holder' = 0
    /\ StartRequest(w, 1, Second(rate_args.requests_per_second))
    /\ UNCHANGED <<notRate, rate_args, rate_kind, now>>

\* the fetch_* call is over: a single lookup ends the job; a failed batch
\* request goes on to one gated single lookup per code. fetched keeps what the
\* call returned, the number of attempts it made and whether it returned
\* because its last permitted attempt failed; response is what the attempt
\* got back
FinishFetch(w, response, failed, exhausted) ==
    LET phase == rjob[w].phase
        next_phase == IF rate_kind = "single" THEN 0
                      ELSE IF phase = 0 THEN (IF failed THEN 1 ELSE 0)
                      ELSE IF phase < Cardinality(BatchCodes) THEN phase + 1
                      ELSE 0
    IN rjob' = [rjob EXCEPT ![w].pc = IF next_phase = 0 THEN "done" ELSE "gate",
                            ![w].phase = next_phase,
                            ![w].attempt = 0, ![w].backoff = 0, ![w].wake = 0,
                            ![w].response = <<response>>,
                            ![w].fetched =
                                [attempts |-> rjob[w].attempt,
                                 result |-> IF failed THEN "error" ELSE "ok",
                                 exhausted |-> exhausted]]

\* the sleep before the next attempt, and the doubling of the backoff
SleepThenRetry(w, response, slept) ==
    rjob' = [rjob EXCEPT
               ![w].pc = "backoff",
               ![w].wake = now + slept,
               ![w].response = <<response>>,
               ![w].backoff = NextBackoff(rjob[w].backoff,
                                          rate_args.requests_per_second)]

\* the response (or the network error) of the attempt in progress arrives
Response(w) ==
    /\ rjob[w].pc = "in_request"
    /\ \E response \in Responses :
         LET R == rate_args.requests_per_second
             last == rjob[w].attempt = Attempts(rate_args.max_retries)
             status == response.status
         IN
         IF status = <<>>
         THEN IF last                                 \* Err(err)
              THEN FinishFetch(w, response, TRUE, TRUE)
              ELSE SleepThenRetry(w, response, rjob[w].backoff)
         ELSE IF is_success(status[1])
         THEN FinishFetch(w, response, ~response.body_ok, FALSE)
         ELSE IF is_retryable_status(status[1])
         THEN IF last
              THEN FinishFetch(w, response, TRUE, TRUE)
              ELSE \E retry_after \in -1..MaxRetryAfter :
                     SleepThenRetry(w, response,
                                    IF retry_after = -1 THEN rjob[w].backoff
                                    ELSE retry_after * Second(R))
         ELSE FinishFetch(w, response, TRUE, FALSE)  \* status that is not retried
    /\ UNCHANGED <<notRate, rate_args, rate_kind, now, next_slot, gate_holder,
                   last_start, min_gap>>

\* the retry sleep is over: the next attempt is sent, without the gate
RetryWake(w) ==
    /\ rjob[w].pc = "backoff"
    /\ now >= rjob[w].wake
    /\ StartRequest(w, rjob[w].attempt + 1, rjob[w].backoff)
    /\ UNCHANGED <<notRate, rate_args, rate_kind, now, next_slot, gate_holder>>

\* time passes
Tick ==
    /\ now < MaxTime
    /\ \E w \in RateJobs : rjob[w].pc # "done"
    /\ now' = now + 1
    /\ UNCHANGED <<notRate, rate_args, rate_kind, next_slot, gate_holder, rjob,
                   last_start, min_gap>>

RateNext ==
    \/ \E w \in RateJobs : GateEnter(w)
    \/ \E w \in RateJobs : GateWake(w)
    \/ \E w \in RateJobs : Response(w)
    \/ \E w \in RateJobs : RetryWake(w)
    \/ Tick

\* C1: with requests_per_second = R > 0, any two upstream requests to the same
\* upstream, retry attempts and failover single-code queries included, start
\* at least 1/R seconds apart.
C1_RequestsSpaced ==
    (rate_args.requests_per_second > 0 /\ min_gap # -1) =>
        min_gap >= MinInterval(rate_args.requests_per_second)

\* C29: for any interleaving of workers with min_interval > 0, the
\* acquisitions of the rate gate are serialized (one worker at a time holds
\* the lock, through its sleep), each sets T := max(now, T) + min_interval on
\* leaving, and a worker leaves no earlier than T, which is min_interval
\* after the previous worker left: successive leaves are at least
\* min_interval apart.
C29_GateSerializedAndSpaced ==
    /\ [](\A w \in RateJobs : rjob[w].pc = "gate_sleep" => gate_holder = w)
    /\ [][\A w \in RateJobs :
            (/\ MinInterval(rate_args.requests_per_second) > 0
             /\ rjob[w].pc \in {"gate", "gate_sleep"}
             /\ rjob'[w].pc = "in_request") =>
                /\ gate_holder \in {0, w}
                /\ gate_holder' = 0
                /\ now >= next_slot
                /\ next_slot' = Max(now, next_slot) +
                                   MinInterval(rate_args.requests_per_second)
                \* without in-request retries the latest request start is
                \* the previous leave of the gate
                /\ (Attempts(rate_args.max_retries) = 1 /\ last_start # -1) =>
                      now - last_start >=
                          MinInterval(rate_args.requests_per_second)]_vars

\* the second worker slept in the gate and has left it exactly min_interval
\* after the first
C29_Witness ==
    /\ rate_args.requests_per_second > 0
    /\ Attempts(rate_args.max_retries) = 1
    /\ \A w \in RateJobs : rjob[w].pc = "in_request" /\ rjob[w].attempt = 1
    /\ now = 1
    /\ last_start = 1
    /\ min_gap = 1
    /\ next_slot = 2
    /\ gate_holder = 0

\* C35: a response with a non-retryable status ends the request after that
\* single attempt with outcome Error, no further attempt being made within
\* the request; the outcome is the one a transient error ends with, which the
\* pool queues for its next round.
C35_NonRetryableEndsRequest ==
    [][\A w \in RateJobs :
         (/\ rjob[w].pc = "in_request"
          /\ rjob'[w].response # <<>>
          /\ rjob'[w].response[1].status # <<>>
          /\ ~is_success(rjob'[w].response[1].status[1])
          /\ rjob'[w].response[1].status[1] \notin RetryableStatuses) =>
             /\ rjob'[w].pc \in {"done", "gate"}
             /\ rjob'[w].attempt = 0
             /\ rjob'[w].fetched =
                   [attempts |-> rjob[w].attempt, result |-> "error",
                    exhausted |-> FALSE]
             /\ \A other \in RateJobs :
                   rjob'[other].fetched.exhausted =>
                       rjob'[other].fetched.result = rjob'[w].fetched.result
             /\ QueuedForRetry(IF rjob'[w].fetched.result = "error"
                               THEN "Error" ELSE "Found")]_vars

\* with two attempts permitted, a lookup got a 404 on its first attempt and
\* is over; the other lookup used both attempts on 503s
C35_Witness ==
    /\ rate_kind = "single"
    /\ rate_args.max_retries = 2
    /\ rjob[1].pc = "done"
    /\ rjob[1].response = <<[status |-> <<404>>, body_ok |-> FALSE]>>
    /\ rjob[1].fetched = [attempts |-> 1, result |-> "error", exhausted |-> FALSE]
    /\ rjob[2].response = <<[status |-> <<503>>, body_ok |-> FALSE]>>
    /\ rjob[2].fetched = [attempts |-> 2, result |-> "error", exhausted |-> TRUE]

\* C16: for any max_retries, 0 included, one upstream query makes at least one
\* and at most max(max_retries, 1) HTTP attempts, and a query whose last
\* permitted attempt fails with a retryable status or a network error
\* returns an error.
C16_AttemptsBoundedThenError ==
    \A w \in RateJobs :
        LET most == IF rate_args.max_retries > 1 THEN rate_args.max_retries ELSE 1
            f == rjob[w].fetched
        IN /\ rjob[w].attempt <= most
           /\ rjob[w].pc \in {"in_request", "backoff"} => rjob[w].attempt >= 1
           /\ f.result # "none" =>
                 /\ 1 <= f.attempts
                 /\ f.attempts <= most
                 /\ f.exhausted => (f.attempts = most /\ f.result = "error")

C16_Witness ==
    /\ rate_args.max_retries = 0
    /\ \E w \in RateJobs :
         /\ rjob[w].fetched.exhausted
         /\ rjob[w].fetched.attempts = 1
         /\ rjob[w].fetched.result = "error"
    /\ \E w \in RateJobs :
         /\ rjob[w].fetched.result = "ok"
         /\ rjob[w].fetched.attempts = 1

(***************************************************************************)
(* The HCPCS cache table. A code is written in upper or lower case; the    *)
(* table's primary key (code, record fields, status) compares the code      *)
(* byte by byte, so rows that differ only in letter case are distinct rows. *)
(***************************************************************************)
CodeBases == {"A0428", "J1100"}

LetterCases == {"upper", "lower"}

\* a code as written: <<the code in upper case, the letter case used>>
Spellings == CodeBases \X LetterCases

\* the descriptive fields of an ok record, 0 for a sentinel row
RecordFields == {1}

CacheRows ==
    [code : Spellings, fields : RecordFields \cup {0},
     status : {"ok", "not_found", "error"}]

\* a = b COLLATE NOCASE
EqNoCase(a, b) == a[1] = b[1]

\* the WHERE clause of the DELETE that opens each write: build_datasets
\* compares with COLLATE NOCASE, data_enricher compares the bytes
DeleteMatches(impl, stored, code) ==
    IF impl = "build_datasets" THEN EqNoCase(stored, code) ELSE stored = code

\* the NPIs of the table npi_cache
NpiKeys == {1, 2}

CacheIdle ==
    /\ cache_impl = "build_datasets"
    /\ hcpcs_cache = {}
    /\ last_write = [method |-> "none", code |-> <<"A0428", "upper">>, ok |-> TRUE]
    /\ npi_cache = [npi \in NpiKeys |-> "none"]

CacheInit ==
    /\ cache_impl \in {"build_datasets", "data_enricher"}
    /\ hcpcs_cache = {}
    /\ last_write = [method |-> "none", code |-> <<"A0428", "upper">>, ok |-> TRUE]
    /\ npi_cache = [npi \in NpiKeys |-> "none"]

\* the rows left by the DELETE of a write on code
AfterDelete(code) ==
    {r \in hcpcs_cache : ~DeleteMatches(cache_impl, r.code, code)}

\* replace_with_ok_records(code, records): the caller passes a non-empty,
\* de-duplicated list of records whose code equals `code` ignoring case; each
\* is inserted under the record's own spelling. An INSERT that meets an
\* existing primary key fails and the method returns Err, keeping what it
\* had inserted before (the writes are not in a transaction).
replace_with_ok_records(code, records) ==
    LET kept == AfterDelete(code)
        new == {[code |-> rec[1], fields |-> rec[2], status |-> "ok"] :
                  rec \in records}
    IN
    /\ records # {}
    /\ \A rec \in records : EqNoCase(rec[1], code)
    /\ IF new \cap kept = {}
       THEN /\ hcpcs_cache' = kept \cup new
            /\ last_write' = [method |-> "replace_with_ok_records",
                              code |-> code, ok |-> TRUE]
       ELSE /\ \E done \in SUBSET (new \ kept) :
                 /\ done # new \ kept \/ new \ kept = {}
                 /\ hcpcs_cache' = kept \cup done
            /\ last_write' = [method |-> "replace_with_ok_records",
                              code |-> code, ok |-> FALSE]
    /\ UNCHANGED <<notCache, cache_impl, npi_cache>>

\* set_not_found(code, reason): DELETE, then INSERT one not_found sentinel
set_not_found(code) ==
    /\ hcpcs_cache' = AfterDelete(code) \cup
                        {[code |-> code, fields |-> 0, status |-> "not_found"]}
    /\ last_write' = [method |-> "set_not_found", code |-> code, ok |-> TRUE]
    /\ UNCHANGED <<notCache, cache_impl, npi_cache>>

\* set_error(code, message): DELETE, then INSERT one error sentinel
set_error(code) ==
    /\ hcpcs_cache' = AfterDelete(code) \cup
                        {[code |-> code, fields |-> 0, status |-> "error"]}
    /\ last_write' = [method |-> "set_error", code |-> code, ok |-> TRUE]
    /\ UNCHANGED <<notCache, cache_impl, npi_cache>>

\* upsert_ok / upsert_not_found / upsert_error: INSERT ... ON CONFLICT(npi) DO
\* UPDATE, one row per NPI
upsert(npi, status) ==
    /\ npi_cache' = [npi_cache EXCEPT ![npi] = status]
    /\ UNCHANGED <<notCache, cache_impl, hcpcs_cache, last_write>>

CacheNext ==
    \/ \E npi \in NpiKeys : \E status \in {"ok", "not_found", "error"} :
         upsert(npi, status)
    \/ \E code \in Spellings :
         \E records \in
              SUBSET ({s \in Spellings : EqNoCase(s, code)} \X RecordFields) :
           replace_with_ok_records(code, records)
    \/ \E code \in Spellings : set_not_found(code)
    \/ \E code \in Spellings : set_error(code)

\* the rows of a code, whatever the letter case they were written in
RowsOf(base) == {r \in hcpcs_cache : r.code[1] = base}

\* C9: after any sequence of replace_with_ok_records, set_not_found and
\* set_error on codes in any letter case, each code that has rows has either
\* one or more ok rows and nothing else, or exactly one not_found row, or
\* exactly one error row.
C9_OneStatusPerCode ==
    \A base \in CodeBases :
      LET rs == RowsOf(base) IN
      rs # {} =>
        \/ \A r \in rs : r.status = "ok"
        \/ Cardinality(rs) = 1 /\ \A r \in rs : r.status = "not_found"
        \/ Cardinality(rs) = 1 /\ \A r \in rs : r.status = "error"

(***************************************************************************)
(* classify_for_lookup of the three caches.                                *)
(***************************************************************************)
MaxKeys == 2

\* the key lists handed to classify_for_lookup
CodeSeqs == UNION {[1..n -> Spellings] : n \in 0..MaxKeys}

NpiSeqs == UNION {[1..n -> NpiKeys] : n \in 0..MaxKeys}

\* variant: rows of status error count as resolved
ResolvedStatusOrError(status) == status \in {"ok", "not_found", "error"}

\* Some("ok") | Some("not_found") / status IN ('ok', 'not_found')
ResolvedStatus(status) == status \in {"ok", "not_found"}

\* the WHERE clause of the lookup: build_datasets compares the code with
\* COLLATE NOCASE, data_enricher compares the bytes
LookupMatches(impl, stored, code) ==
    IF impl = "build_datasets" THEN EqNoCase(stored, code) ELSE stored = code

\* HcpcsCache::classify_for_lookup: (resolved, missing) over the codes in order
RECURSIVE classify_for_lookup(_, _, _)
classify_for_lookup(impl, rows, codes) ==
    IF codes = <<>> THEN [resolved |-> 0, missing |-> <<>>]
    ELSE LET code == Head(codes)
             rest == classify_for_lookup(impl, rows, Tail(codes))
             exists == \E r \in rows : /\ LookupMatches(impl, r.code, code)
                                       /\ ResolvedStatus(r.status)
         IN IF exists
            THEN [resolved |-> rest.resolved + 1, missing |-> rest.missing]
            ELSE [resolved |-> rest.resolved,
                  missing |-> <<code>> \o rest.missing]

\* NpiCache::classify_for_lookup: the status of the NPI's one row, if any
RECURSIVE npi_classify_for_lookup(_, _)
npi_classify_for_lookup(table, npis) ==
    IF npis = <<>> THEN [resolved |-> 0, missing |-> <<>>]
    ELSE LET npi == Head(npis)
             rest == npi_classify_for_lookup(table, Tail(npis))
         IN IF table[npi] # "none" /\ ResolvedStatus(table[npi])
            THEN [resolved |-> rest.resolved + 1, missing |-> rest.missing]
            ELSE [resolved |-> rest.resolved,
                  missing |-> <<npi>> \o rest.missing]

\* C11: in the caches of build_datasets, classify counts exactly the keys that
\* have a row of status ok or not_found, and returns every other key (only an
\* error row, or no row) in missing_keys, in the order presented.
C11_ClassifyResolvedIffOkOrNotFound ==
    /\ cache_impl = "build_datasets" =>
         \A codes \in CodeSeqs :
           LET c == classify_for_lookup(cache_impl, hcpcs_cache, codes)
               HasRow(code) == \E r \in hcpcs_cache :
                                  /\ EqNoCase(r.code, code)
                                  /\ r.status \in {"ok", "not_found"}
               Lacks(code) == ~HasRow(code)
           IN /\ c.resolved = Cardinality({i \in 1..Len(codes) : HasRow(codes[i])})
              /\ c.missing = SelectSeq(codes, Lacks)
    /\ \A npis \in NpiSeqs :
         LET c == npi_classify_for_lookup(npi_cache, npis)
             Lacks(npi) == npi_cache[npi] \notin {"ok", "not_found"}
         IN /\ c.resolved = Cardinality({i \in 1..Len(npis) :
                                           npi_cache[npis[i]] \in {"ok", "not_found"}})
            /\ c.missing = SelectSeq(npis, Lacks)

\* both tables hold a key with only an error row, a key with a not_found row
\* and (HCPCS) a key with an ok row, so a classify over them resolves some keys
\* and reports others missing
C11_Witness ==
    /\ cache_impl = "build_datasets"
    /\ \E r \in hcpcs_cache : r.status = "error" /\ r.code[1] = "A0428"
    /\ \E r \in hcpcs_cache : r.status = "ok" /\ r.code[1] = "J1100"
    /\ npi_cache[1] = "error"
    /\ npi_cache[2] = "not_found"
    /\ classify_for_lookup(cache_impl, hcpcs_cache,
                           <<<<"A0428", "upper">>, <<"J1100", "upper">>>>) =
         [resolved |-> 1, missing |-> <<<<"A0428", "upper">>>>]
    /\ npi_classify_for_lookup(npi_cache, <<1, 2>>) =
         [resolved |-> 1, missing |-> <<1>>]

\* C12: for either HcpcsCache, presenting a key list in another letter case
\* changes neither resolved_count nor which positions are reported missing.
\* (The reachable tables are closed under changing the case of stored codes,
\* so this covers the case of the key as stored as well.)
C12_ClassifyCaseInvariant ==
    \A codes \in CodeSeqs : \A other \in CodeSeqs :
        (Len(codes) = Len(other) /\
         \A i \in 1..Len(codes) : EqNoCase(codes[i], other[i])) =>
            LET c == classify_for_lookup(cache_impl, hcpcs_cache, codes)
                d == classify_for_lookup(cache_impl, hcpcs_cache, other)
            IN /\ c.resolved = d.resolved
               /\ Len(c.missing) = Len(d.missing)
               /\ \A i \in 1..Len(c.missing) :
                     EqNoCase(c.missing[i], d.missing[i])

(***************************************************************************)
(* The pool: resolve_missing_npis and resolve_missing_hcpcs.               *)
(***************************************************************************)
PoolArgs ==
    [concurrency : 0..MaxConcurrency,
     failure_retry_rounds : 0..MaxRetryRounds,
     failure_retry_delay_seconds : 0..MaxRetryDelay,
     requests_per_second : {0, 1},
     hcpcs_batch_size : 0..MaxBatchSize]

PoolInit ==
    /\ pool_kind \in {"npi", "hcpcs"}
    /\ args \in PoolArgs
    /\ pool_kind = "npi" => args.hcpcs_batch_size = 1
    /\ \E n \in 0..NumIds : missing = [i \in 1..n |-> i]
    /\ pc = "entry"
    /\ round_npis = <<>>
    /\ queue = <<>>
    /\ in_flight = {}
    /\ next_round_npis = <<>>
    /\ retry_round = 0
    /\ retry_failover_triggered = FALSE
    /\ interrupted = FALSE
    /\ seed_i = 0
    /\ countdown_left = 0
    /\ cache = [id \in Ids |-> "none"]
    /\ tally = [found |-> 0, not_found |-> 0, failed |-> 0]
    /\ pool_result = "running"
    /\ shutdown_requested = FALSE
    /\ owed = {}
    /\ at_stop = [pending |-> FALSE, flight |-> {}]
    /\ round_log = [errors |-> {}, prior_errors |-> {}, prior_undispatched |-> {},
                    storage_failed |-> FALSE]

\* the pool has undispatched or in-flight jobs, or waits in a retry cool-down
PoolHasPending ==
    \/ pc = "entry" /\ missing # <<>>
    \/ pc \in {"round_top", "cooldown", "resume_sleep"}
    \/ pc \in {"seed", "drain"} /\
         (queue # <<>> \/ in_flight # {} \/ next_round_npis # <<>>)

\* the Ctrl-C handler task sets the flag; it can run between any two steps
CtrlC ==
    /\ pc # "returned"
    /\ ~shutdown_requested
    /\ shutdown_requested' = TRUE
    /\ owed' = InFlightIds
    /\ at_stop' = [pending |-> PoolHasPending, flight |-> InFlightIds]
    /\ UNCHANGED <<notPool, pool_kind, args, missing, pc, round_npis, queue, in_flight,
                   next_round_npis, retry_round, retry_failover_triggered,
                   interrupted, seed_i, countdown_left, cache, tally,
                   pool_result,
                   round_log>>

\* the statements after the round loop: Ok((interrupted, reference_rows))
ReturnOk(intr) ==
    /\ interrupted' = intr
    /\ pc' = "returned"
    /\ pool_result' = "ok"

\* entry of the function up to the first test of the round loop
PoolEnter ==
    /\ pc = "entry"
    /\ IF missing = <<>>
       THEN /\ ReturnOk(FALSE)
            /\ UNCHANGED round_npis
       ELSE /\ interrupted' = shutdown_requested
            /\ round_npis' = missing
            /\ pc' = "round_top"
            /\ UNCHANGED pool_result
    /\ UNCHANGED <<notPool, pool_kind, args, missing, queue, in_flight, next_round_npis,
                   retry_round, retry_failover_triggered, seed_i,
                   countdown_left, cache, tally, shutdown_requested, owed,
                   at_stop,
                   round_log>>

\* set-up of a round's queue, in_flight and next-round list
BeginSeed ==
    /\ queue' = RoundJobs(pool_kind, round_npis, args.hcpcs_batch_size)
    /\ in_flight' = {}
    /\ next_round_npis' = <<>>
    /\ retry_failover_triggered' = FALSE
    /\ seed_i' = 0
    /\ pc' = "seed"

\* top of the round loop: flag test, then cool-down or straight to the round
RoundTop ==
    /\ pc = "round_top"
    /\ IF shutdown_requested
       THEN /\ ReturnOk(TRUE)
            /\ UNCHANGED <<queue, in_flight, next_round_npis,
                           retry_failover_triggered, seed_i, countdown_left>>
       ELSE IF retry_round > 0 /\ args.failure_retry_delay_seconds # 0
       THEN /\ countdown_left' =
                  RetryDelaySecs(args.failure_retry_delay_seconds, retry_round)
            /\ pc' = "cooldown"
            /\ UNCHANGED <<queue, in_flight, next_round_npis,
                           retry_failover_triggered, seed_i, interrupted,
                           pool_result>>
       ELSE /\ BeginSeed
            /\ UNCHANGED <<countdown_left, interrupted, pool_result>>
    /\ UNCHANGED <<notPool, pool_kind, args, missing, round_npis, retry_round, cache,
                   tally, shutdown_requested, owed, at_stop,
                   round_log>>

\* variant: the countdown loads the flag only after its last second
CountdownSeesFlagAtEndOnly(flag, left) == flag /\ left = 0

\* shutdown_requested.load(Ordering::SeqCst) at the top of each second of the
\* countdown and once more after the last
CountdownSeesFlag(flag, left) == flag

\* one iteration of the countdown: flag test, then a one-second sleep
CountdownTick ==
    /\ pc = "cooldown"
    /\ countdown_left > 0
    /\ IF CountdownSeesFlag(shutdown_requested, countdown_left)
       THEN /\ ReturnOk(TRUE)
            /\ UNCHANGED countdown_left
       ELSE /\ countdown_left' = countdown_left - 1
            /\ UNCHANGED <<pc, interrupted, pool_result>>
    /\ UNCHANGED <<notPool, pool_kind, args, missing, round_npis, queue, in_flight,
                   next_round_npis, retry_round, retry_failover_triggered,
                   seed_i, cache, tally, shutdown_requested, owed,
                   at_stop,
                   round_log>>

\* the countdown's final flag load and the caller's test of it
CountdownEnd ==
    /\ pc = "cooldown"
    /\ countdown_left = 0
    /\ IF CountdownSeesFlag(shutdown_requested, countdown_left)
       THEN /\ ReturnOk(TRUE)
            /\ UNCHANGED <<queue, in_flight, next_round_npis,
                           retry_failover_triggered, seed_i>>
       ELSE IF args.requests_per_second # 0
       THEN /\ pc' = "resume_sleep"
            /\ UNCHANGED <<queue, in_flight, next_round_npis,
                           retry_failover_triggered, seed_i, interrupted,
                           pool_result>>
       ELSE /\ BeginSeed
            /\ UNCHANGED <<interrupted, pool_result>>
    /\ UNCHANGED <<notPool, pool_kind, args, missing, round_npis, retry_round,
                   countdown_left, cache, tally, shutdown_requested, owed,
                   at_stop,
                   round_log>>

\* sleep(min_interval) after the cool-down, then the round's set-up
ResumeSleep ==
    /\ pc = "resume_sleep"
    /\ BeginSeed
    /\ UNCHANGED <<notPool, pool_kind, args, missing, round_npis, retry_round,
                   interrupted, countdown_left, cache, tally, pool_result,
                   shutdown_requested, owed, at_stop,
                   round_log>>

\* one iteration of the initial dispatch loop: flag test, then queue.next();
\* the loop ends on the flag or after concurrency iterations
SeedStep ==
    /\ pc = "seed"
    /\ IF shutdown_requested
       THEN /\ interrupted' = TRUE
            /\ pc' = "drain"
            /\ UNCHANGED <<queue, in_flight, seed_i>>
       ELSE /\ seed_i' = seed_i + 1
            /\ IF queue # <<>>
               THEN /\ in_flight' = in_flight \cup {Head(queue)}
                    /\ queue' = Tail(queue)
               ELSE UNCHANGED <<queue, in_flight>>
            /\ pc' = IF seed_i + 1 >= EffectiveConcurrency(args.concurrency)
                     THEN "drain" ELSE "seed"
            /\ UNCHANGED interrupted
    /\ UNCHANGED <<notPool, pool_kind, args, missing, round_npis, next_round_npis,
                   retry_round, retry_failover_triggered, countdown_left,
                   cache, tally, pool_result, shutdown_requested, owed,
                   at_stop,
                   round_log>>

\* variant: an Error outcome of an identifier leaves the pool as an error too
PropagatesErrorOfIdentifier(storage_failed, results) ==
    storage_failed \/ \E i \in DOMAIN results : results[i] = "Error"

\* what leaves the completion handler through `?`: a failed cache write; the
\* job's results are matched, never propagated
PropagatesError(storage_failed, results) == storage_failed

\* in_flight.next() yields a finished job; the handler writes one outcome per
\* identifier of the job. failAt = k > 0: the k-th cache write fails and the
\* `?` returns the storage error, dropping whatever is still in flight.
Complete(job) ==
    /\ pc = "drain"
    /\ DrainContinues(shutdown_requested, in_flight)
    /\ job \in in_flight
    /\ \E res \in [1..Len(job) -> ResolveResults],
          failAt \in 0..Len(job) :
         LET done == IF failAt = 0 THEN Len(job) ELSE failAt - 1
             status(i) == WrittenStatus(pool_kind, job[i], res[i])
             written == {job[i] : i \in 1..done}
             retryable == can_retry_errors_again /\ ~shutdown_requested
             errs == SelectSeq([i \in 1..done |-> <<job[i], res[i]>>],
                               LAMBDA p : QueuedForRetry(p[2]))
             failover == retry_failover_triggered \/
                         (retryable /\ errs # <<>>)
             count(s) == Cardinality({i \in 1..done : status(i) = s})
         IN
         /\ cache' = [id \in Ids |->
                        IF id \in written
                        THEN status(CHOOSE i \in 1..done : job[i] = id)
                        ELSE cache[id]]
         /\ tally' = [found |-> tally.found + count("ok"),
                      not_found |-> tally.not_found + count("not_found"),
                      failed |-> tally.failed +
                                 (IF retryable THEN 0 ELSE Len(errs))]
         /\ owed' = owed \ written
         /\ round_log' = [round_log EXCEPT
                            !.errors = @ \cup {job[i] : i \in {k \in 1..done :
                                                                 res[k] = "Error"}},
                            !.storage_failed = failAt # 0]
         /\ next_round_npis' =
              IF retryable
              THEN next_round_npis \o [i \in 1..Len(errs) |-> errs[i][1]]
              ELSE next_round_npis
         /\ retry_failover_triggered' = failover
         /\ IF PropagatesError(failAt # 0, res)
            THEN /\ pool_result' = "err"
                 /\ pc' = "returned"
                 /\ in_flight' = {}
                 /\ UNCHANGED <<queue, interrupted>>
            ELSE /\ interrupted' =
                      InterruptedAfterCompletion(interrupted, shutdown_requested)
                 /\ IF MayDispatchNext(shutdown_requested, failover) /\
                       queue # <<>>
                    THEN /\ in_flight' = (in_flight \ {job}) \cup {Head(queue)}
                         /\ queue' = Tail(queue)
                    ELSE /\ in_flight' = in_flight \ {job}
                         /\ UNCHANGED queue
                 /\ UNCHANGED <<pc, pool_result>>
    /\ UNCHANGED <<notPool, pool_kind, args, missing, round_npis, retry_round, seed_i,
                   countdown_left, shutdown_requested, at_stop>>

\* variant: what the round did not dispatch is not carried over
CarriedOverErrorsOnly(errors, undispatched) == errors

\* next_round_npis.extend(queue.into_iter().flatten())
CarriedOver(errors, undispatched) == errors \o Flatten(undispatched)

\* after the drain loop: carry the queue's remainder over, then stop or go on
RoundEnd ==
    /\ pc = "drain"
    /\ ~DrainContinues(shutdown_requested, in_flight)
    /\ LET carried == CarriedOver(next_round_npis, queue) IN
       /\ round_npis' = carried
       /\ IF carried = <<>> \/ interrupted
          THEN /\ ReturnOk(interrupted)
               /\ UNCHANGED retry_round
          ELSE /\ retry_round' = retry_round + 1
               /\ pc' = "round_top"
               /\ UNCHANGED <<interrupted, pool_result>>
    /\ round_log' = [storage_failed |-> round_log.storage_failed,
                     errors |-> {}, prior_errors |-> round_log.errors,
                     prior_undispatched |-> Range(Flatten(queue))]
    /\ queue' = <<>>
    /\ in_flight' = {}
    /\ next_round_npis' = <<>>
    /\ UNCHANGED <<notPool, pool_kind, args, missing, retry_failover_triggered, seed_i,
                   countdown_left, cache, tally, shutdown_requested, owed,
                   at_stop>>

PoolNext ==
    \/ CtrlC
    \/ PoolEnter
    \/ RoundTop
    \/ CountdownTick
    \/ CountdownEnd
    \/ ResumeSleep
    \/ SeedStep
    \/ \E job \in in_flight : Complete(job)
    \/ RoundEnd

\* the steps of the pool function itself: the task that runs it is scheduled
\* again whenever it can go on (a timer fires, a request returns)
PoolProgress ==
    \/ PoolEnter
    \/ RoundTop
    \/ CountdownTick
    \/ CountdownEnd
    \/ ResumeSleep
    \/ SeedStep
    \/ \E job \in in_flight : Complete(job)
    \/ RoundEnd

\* no pool runs
PoolIdle ==
    /\ pool_kind = "npi"
    /\ args = [concurrency |-> 0, failure_retry_rounds |-> 0,
               failure_retry_delay_seconds |-> 0, requests_per_second |-> 0,
               hcpcs_batch_size |-> 0]
    /\ missing = <<>>
    /\ pc = "returned"
    /\ round_npis = <<>>
    /\ queue = <<>>
    /\ in_flight = {}
    /\ next_round_npis = <<>>
    /\ retry_round = 0
    /\ retry_failover_triggered = FALSE
    /\ interrupted = FALSE
    /\ seed_i = 0
    /\ countdown_left = 0
    /\ cache = [id \in Ids |-> "none"]
    /\ tally = [found |-> 0, not_found |-> 0, failed |-> 0]
    /\ pool_result = "ok"
    /\ shutdown_requested = FALSE
    /\ owed = {}
    /\ at_stop = [pending |-> FALSE, flight |-> {}]
    /\ round_log = [errors |-> {}, prior_errors |-> {}, prior_undispatched |-> {},
                    storage_failed |-> FALSE]

(***************************************************************************)
(* main(): one run of the pipeline over the state earlier runs left.       *)
(* The two builders run their lookups through the pool above; here the pool *)
(* is taken at concurrency 1 and failure_retry_rounds 0, one job at a time. *)
(***************************************************************************)
MainIds == {1, 2}

Kinds == {"npi", "hcpcs"}

\* NPIs that the local NPPES bulk files hold
BulkNpis == {1}

Statuses == {"none", "ok", "not_found", "error"}

RECURSIVE SortedSeq(_)
SortedSeq(S) ==
    IF S = {} THEN <<>>
    ELSE LET m == CHOOSE x \in S : \A y \in S : x <= y
         IN <<m>> \o SortedSeq(S \ {m})

Absent == [state |-> "absent", rows |-> {}, expect |-> {}]

Prior == [state |-> "prior", rows |-> {}, expect |-> {}]

\* a file written by this run: the identifiers it has rows for, and the
\* identifiers a complete file of its kind has rows for
NewFile(rows, expect) == [state |-> "new", rows |-> rows, expect |-> expect]

Exists(f) == f.state # "absent"

Partial(f) == f.state = "new" /\ f.rows # f.expect

Paths == {"npi_cache_db", "hcpcs_cache_db", "npi_mapping_csv",
          "hcpcs_mapping_csv", "npi_parquet", "hcpcs_parquet",
          "npi_parquet_tmp"}

\* classify_for_lookup: the identifiers without an ok or not_found row
MissingIds(st) == {id \in MainIds : st[id] \notin {"ok", "not_found"}}

OkIds(st) == {id \in MainIds : st[id] = "ok"}

\* is_npi_dataset_complete: both files exist and every NPI has a row whose
\* status is ok, not_found or error
is_npi_dataset_complete(fs, st) ==
    /\ Exists(fs["npi_cache_db"])
    /\ Exists(fs["npi_mapping_csv"])
    /\ \A id \in MainIds : st[id] \in {"ok", "not_found", "error"}

\* is_hcpcs_dataset_complete: the three files exist, classify_for_lookup
\* finds nothing missing and every code of the local fallback has an ok row
is_hcpcs_dataset_complete(fs, st) ==
    /\ Exists(fs["hcpcs_cache_db"])
    /\ Exists(fs["hcpcs_mapping_csv"])
    /\ Exists(fs["hcpcs_parquet"])
    /\ MissingIds(st) = {}
    /\ \A id \in LocalFallback \cap MainIds : st[id] = "ok"

\* variant: uploads are skipped only when a builder reported interrupted
ShouldSkipUploadIgnoringFlag(intr, flag) == intr

\* the test `interrupted || shutdown_requested.load()` before the upload
ShouldSkipUpload(intr, flag) == intr \/ flag

\* collect_unresolved_npis / collect_unresolved_hcpcs: every identifier whose
\* best cached status is not ok; the triage outputs are derived from the report
WrittenReports(st) ==
    LET unresolved == [k \in Kinds |-> {id \in MainIds : st[k][id] # "ok"}]
    IN [report |-> [written |-> TRUE, unresolved |-> unresolved],
        triage |-> [written |-> TRUE, unresolved |-> unresolved]]

NoReports ==
    LET none == [written |-> FALSE, unresolved |-> [k \in Kinds |-> {}]]
    IN [report |-> none, triage |-> none]

\* variant: the cancellation path returns without the report and the triage
ReportsOnCancelSkipped(old, st) == old

\* the report and triage written on the cancellation path
ReportsOnCancel(old, st) == WrittenReports(st)

IdleBuilder ==
    [pc |-> "idle", queue |-> <<>>, flying |-> 0, interrupted |-> FALSE,
     planned |-> {}, attempted |-> {}, rows |-> {}, ret |-> FALSE]

MainIdle ==
    /\ margs = [reset_map |-> FALSE, rebuild_map |-> FALSE, skip_api |-> FALSE]
    /\ store = [k \in Kinds |-> [id \in MainIds |-> "none"]]
    /\ files = [p \in Paths |-> Absent]
    /\ reports = NoReports
    /\ main_pc = "idle"
    /\ should_build = [k \in Kinds |-> FALSE]
    /\ builder = [k \in Kinds |-> IdleBuilder]
    /\ main_interrupted = FALSE
    /\ upload_invoked = FALSE
    /\ main_result = "none"
    /\ at_start = [k \in Kinds |-> [id \in MainIds |-> "none"]]

\* a first run on an empty data directory, or a run after earlier runs that
\* left both caches, both mapping CSVs and both columnar artifacts behind
MainInit ==
    /\ margs \in [reset_map : BOOLEAN, rebuild_map : BOOLEAN, skip_api : BOOLEAN]
    /\ \/ /\ store = [k \in Kinds |-> [id \in MainIds |-> "none"]]
          /\ files = [p \in Paths |-> Absent]
       \/ /\ store \in [Kinds -> [MainIds -> Statuses]]
          /\ files = [p \in Paths |->
                        IF p = "npi_parquet_tmp" THEN Absent ELSE Prior]
    /\ reports = NoReports
    /\ main_pc = "start"
    /\ should_build = [k \in Kinds |-> FALSE]
    /\ builder = [k \in Kinds |-> IdleBuilder]
    /\ main_interrupted = FALSE
    /\ upload_invoked = FALSE
    /\ main_result = "running"
    /\ at_start = store

Other(k) == IF k = "npi" THEN "hcpcs" ELSE "npi"

DbPath(k) == IF k = "npi" THEN "npi_cache_db" ELSE "hcpcs_cache_db"

CsvPath(k) == IF k = "npi" THEN "npi_mapping_csv" ELSE "hcpcs_mapping_csv"

ParquetPath(k) == IF k = "npi" THEN "npi_parquet" ELSE "hcpcs_parquet"

\* NpiCache::open / HcpcsCache::open create the database when it is absent
Opened(f) == IF Exists(f) THEN f ELSE NewFile({}, {})

\* the Ctrl-C handler task stores true into the shared flag
MainCtrlC ==
    /\ main_pc \notin {"idle", "done"}
    /\ ~shutdown_requested
    /\ shutdown_requested' = TRUE
    /\ UNCHANGED <<mainVars, notMain>>

\* --reset-map deletions, the two completeness tests and should_build_*
MainStart ==
    /\ main_pc = "start"
    /\ LET fs == IF margs.reset_map THEN [p \in Paths |-> Absent] ELSE files
           st == IF margs.reset_map
                 THEN [k \in Kinds |-> [id \in MainIds |-> "none"]]
                 ELSE store
           forced == margs.reset_map \/ margs.rebuild_map
           done == [k \in Kinds |->
                      IF forced THEN FALSE
                      ELSE IF k = "npi"
                           THEN is_npi_dataset_complete(fs, st[k])
                           ELSE is_hcpcs_dataset_complete(fs, st[k])]
           sb == [k \in Kinds |-> forced \/ ~done[k]]
       IN /\ files' = fs
          /\ store' = st
          /\ should_build' = sb
          /\ builder' = [k \in Kinds |->
                           IF sb[k] THEN [IdleBuilder EXCEPT !.pc = "start"]
                           ELSE IdleBuilder]
          /\ main_pc' = IF \E k \in Kinds : sb[k] THEN "build" ELSE "post"
    /\ UNCHANGED <<margs, reports, main_interrupted, upload_invoked,
                   main_result, at_start, notMain, shutdown_requested>>

\* build_npi_mapping / build_hcpcs_mapping up to the call of the pool: open
\* the cache, resolve from local data, classify, test the flag
BuilderStart(k) ==
    /\ main_pc = "build"
    /\ builder[k].pc = "start"
    /\ \E bulk \in (IF shutdown_requested THEN SUBSET BulkNpis ELSE {BulkNpis}) :
         LET local == IF k = "npi" THEN bulk ELSE LocalFallback \cap MainIds
             st == [id \in MainIds |->
                      IF id \in local THEN "ok" ELSE store[k][id]]
             miss == MissingIds(st)
             intr == shutdown_requested
             runs == ~intr /\ ~margs.skip_api /\ miss # {}
         IN /\ (k = "hcpcs" => bulk = BulkNpis)
            /\ store' = [store EXCEPT ![k] = st]
            /\ files' = [files EXCEPT
                   ![DbPath(k)] = Opened(@),
                   !["npi_parquet_tmp"] =
                       IF k = "npi" THEN NewFile(bulk, MainIds) ELSE @]
            /\ builder' = [builder EXCEPT ![k] =
                   [@ EXCEPT !.pc = IF runs THEN "pool" ELSE "finish",
                             !.interrupted = intr,
                             !.planned = IF margs.skip_api THEN {} ELSE miss,
                             !.queue = IF runs THEN SortedSeq(miss) ELSE <<>>]]
    /\ UNCHANGED <<margs, reports, main_pc, should_build, main_interrupted,
                   upload_invoked, main_result, at_start, notMain,
                   shutdown_requested>>

\* the pool's entry and its first dispatch
PoolDispatch(k) ==
    /\ main_pc = "build"
    /\ builder[k].pc = "pool"
    /\ builder' = [builder EXCEPT ![k] =
           IF ~MayDispatchNext(shutdown_requested, FALSE)
           THEN [@ EXCEPT !.pc = "finish", !.interrupted = TRUE]
           ELSE [@ EXCEPT !.pc = "await",
                          !.flying = Head(builder[k].queue),
                          !.queue = Tail(builder[k].queue),
                          !.attempted = @ \cup {Head(builder[k].queue)}]]
    /\ UNCHANGED <<margs, store, files, reports, main_pc, should_build,
                   main_interrupted, upload_invoked, main_result, at_start,
                   notMain, shutdown_requested>>

\* a job completes: its outcome is written to the cache and its reference row
\* kept; then the flag is tested and the next job dispatched
PoolComplete(k) ==
    /\ main_pc = "build"
    /\ builder[k].pc = "await"
    /\ \E res \in ResolveResults :
         LET b == builder[k]
             id == b.flying
             intr == InterruptedAfterCompletion(b.interrupted, shutdown_requested)
             more == b.queue # <<>> /\ MayDispatchNext(shutdown_requested, FALSE)
         IN /\ store' = [store EXCEPT ![k][id] = WrittenStatus(k, id, res)]
            /\ builder' = [builder EXCEPT ![k] =
                   IF more
                   THEN [b EXCEPT !.rows = @ \cup {id},
                                  !.flying = Head(b.queue),
                                  !.queue = Tail(b.queue),
                                  !.attempted = @ \cup {Head(b.queue)}]
                   ELSE [b EXCEPT !.rows = @ \cup {id},
                                  !.flying = 0,
                                  !.interrupted = intr,
                                  !.pc = "finish"]]
    /\ UNCHANGED <<margs, files, reports, main_pc, should_build,
                   main_interrupted, upload_invoked, main_result, at_start,
                   notMain, shutdown_requested>>

\* variant: dropping the provider exporter finishes it, renaming the
\* temporary file over the final path
AfterDropFinishesWriter(fs, k) ==
    IF k = "npi" /\ Exists(fs["npi_parquet_tmp"])
    THEN [fs EXCEPT !["npi_parquet"] = fs["npi_parquet_tmp"],
                    !["npi_parquet_tmp"] = Absent]
    ELSE fs

\* the files after the future of builder k was dropped: its locals are
\* dropped, none of which has a Drop that touches a file (the exporter's
\* temporary file, if any, stays where it is)
AfterDrop(fs, k) == fs

\* the cache write of a completed job fails: the pool, the builder and main
\* return the error; the other builder's future is dropped where it waits
BuilderFails(k) ==
    /\ main_pc = "build"
    /\ builder[k].pc = "await"
    /\ builder[Other(k)].pc \in {"idle", "await", "done"}
    /\ files' = IF builder[Other(k)].pc = "await"
                THEN AfterDrop(files, Other(k)) ELSE files
    /\ builder' = [j \in Kinds |->
           IF j = k THEN [builder[j] EXCEPT !.pc = "failed", !.flying = 0]
           ELSE IF builder[j].pc = "await"
                THEN [builder[j] EXCEPT !.pc = "dropped", !.flying = 0]
                ELSE builder[j]]
    /\ main_pc' = "done"
    /\ main_result' = "err"
    /\ UNCHANGED <<margs, store, reports, should_build,
                   main_interrupted, upload_invoked, at_start, notMain,
                   shutdown_requested>>

\* NpiResolvedParquetExporter: write_remaining_from_api_responses gives every
\* remaining NPI a row; then abort() under the flag, finish() otherwise
NpiExporterClose(fs, flag) ==
    IF flag
    THEN [fs EXCEPT !["npi_parquet_tmp"] = Absent]
    ELSE [fs EXCEPT !["npi_parquet_tmp"] = Absent,
                    !["npi_parquet"] = NewFile(MainIds, MainIds)]

\* export_hcpcs_api_reference_parquet(rows, path): the rows handed over are
\* written to a temporary file that is renamed over the final path
export_hcpcs_api_reference_parquet(fs, rows, planned) ==
    [fs EXCEPT !["hcpcs_parquet"] = NewFile(rows, planned)]

\* the statements of a builder after the pool: mapping CSV, columnar artifact,
\* Ok(interrupted || flag)
BuilderFinish(k) ==
    /\ main_pc = "build"
    /\ builder[k].pc = "finish"
    /\ LET csv == [files EXCEPT ![CsvPath(k)] =
                      NewFile(OkIds(store[k]), OkIds(store[k]))]
       IN files' = IF k = "npi"
                   THEN NpiExporterClose(csv, shutdown_requested)
                   ELSE export_hcpcs_api_reference_parquet(
                            csv, builder[k].rows, builder[k].planned)
    /\ builder' = [builder EXCEPT ![k] =
           [@ EXCEPT !.pc = "done",
                     !.ret = builder[k].interrupted \/ shutdown_requested]]
    /\ UNCHANGED <<margs, store, reports, main_pc, should_build,
                   main_interrupted, upload_invoked, main_result, at_start,
                   notMain, shutdown_requested>>

\* try_join! / .await returns Ok: interrupted = npi_interrupted || hcpcs_interrupted
JoinReturn ==
    /\ main_pc = "build"
    /\ \A k \in Kinds : should_build[k] => builder[k].pc = "done"
    /\ main_interrupted' = \E k \in Kinds : should_build[k] /\ builder[k].ret
    /\ main_pc' = "post"
    /\ UNCHANGED <<margs, store, files, reports, should_build, builder,
                   upload_invoked, main_result, at_start, notMain,
                   shutdown_requested>>

\* export_npi_api_responses_parquet: the artifact regenerated from bulk files
\* and cached responses, without writing to the cache
export_npi_api_responses_parquet(fs, flag) ==
    NpiExporterClose([fs EXCEPT !["npi_cache_db"] = Opened(@)], flag)

\* export_hcpcs_api_responses_parquet: the artifact regenerated from the
\* response log of the cache, written to a temporary file and renamed
export_hcpcs_api_responses_parquet(fs, st, flag) ==
    LET logged == {id \in MainIds : st[id] # "none"}
    IN IF flag THEN fs
       ELSE [fs EXCEPT !["hcpcs_cache_db"] = Opened(@),
                       !["hcpcs_parquet"] = NewFile(logged, logged)]

\* the exports for the datasets that were not built in this run
PostExport ==
    /\ main_pc = "post"
    /\ LET f1 == IF should_build["npi"] THEN files
                 ELSE export_npi_api_responses_parquet(files, shutdown_requested)
       IN files' = IF should_build["hcpcs"] THEN f1
                   ELSE export_hcpcs_api_responses_parquet(
                            f1, store["hcpcs"], shutdown_requested)
    /\ main_pc' = "check"
    /\ UNCHANGED <<margs, store, reports, should_build, builder,
                   main_interrupted, upload_invoked, main_result, at_start,
                   notMain, shutdown_requested>>

\* if interrupted || flag: report, triage, return Ok(()); else the upload
CheckInterrupted ==
    /\ main_pc = "check"
    /\ IF ShouldSkipUpload(main_interrupted, shutdown_requested)
       THEN /\ reports' = ReportsOnCancel(reports, store)
            /\ main_pc' = "done"
            /\ main_result' = "ok"
            /\ UNCHANGED upload_invoked
       ELSE /\ upload_invoked' = TRUE
            /\ main_pc' = "uploaded"
            /\ UNCHANGED <<reports, main_result>>
    /\ UNCHANGED <<margs, store, files, should_build, builder,
                   main_interrupted, at_start, notMain, shutdown_requested>>

\* after maybe_upload_outputs: report, triage, Ok(())
MainFinish ==
    /\ main_pc = "uploaded"
    /\ reports' = WrittenReports(store)
    /\ main_pc' = "done"
    /\ main_result' = "ok"
    /\ UNCHANGED <<margs, store, files, should_build, builder,
                   main_interrupted, upload_invoked, at_start, notMain,
                   shutdown_requested>>

MainNext ==
    \/ MainCtrlC
    \/ MainStart
    \/ \E k \in Kinds : BuilderStart(k)
    \/ \E k \in Kinds : PoolDispatch(k)
    \/ \E k \in Kinds : PoolComplete(k)
    \/ \E k \in Kinds : BuilderFails(k)
    \/ \E k \in Kinds : BuilderFinish(k)
    \/ JoinReturn
    \/ PostExport
    \/ CheckInterrupted
    \/ MainFinish

(***************************************************************************)
(* Single calls of the pipeline's functions, on arguments drawn from        *)
(* bounded sets.                                                           *)
(***************************************************************************)
\* failure_retry_delay_seconds as configured: small values, the default, the
\* hour, values above the hour and a value whose product overflows
DelayBases == {0, 1, 2, 3, 30, 450, 3600, 4000, 536870912, DurationMaxSecs}

RetryDelayCalls ==
    [fn : {"retry_delay"}, base : DelayBases, round : 1..MaxDelayRound]

\* "count": the number of results the upstream returns for one request
UpstreamCount == 500

\* hcpcs_batch_size as configured and the number of codes to look up, around
\* the default and around the upstream's count
BatchSizes == {0, 1, 2, 100, 499, 500, 501, 1000}

CodeCounts == {0, 1, 2, 3, 100, 101, 500, 501, 1001}

\* the calls that make at most MaxChunks batches
ChunkCalls ==
    {c \in [fn : {"chunk"}, codes : {[i \in 1..n |-> i] : n \in CodeCounts},
            batch_size : BatchSizes] :
        Len(c.codes) <= MaxChunks * Max(c.batch_size, 1)}

\* a batch job: distinct codes as the input spells them (the list of codes is
\* a SELECT DISTINCT of trimmed, non-empty codes)
Batches ==
    {b \in UNION {[1..n -> Spellings] : n \in 0..MaxBatchLen} :
        \A i, j \in 1..Len(b) : b[i] = b[j] => i = j}

ResolveCalls == [fn : {"resolve_hcpcs_batch"}, codes : Batches]

\* what the upstream does with the batched query: a 2xx payload with records
\* for some codes, or a failure of the query
BatchAnswers ==
    [ok : {TRUE}, with_records : SUBSET CodeBases] \cup
    {[ok |-> FALSE, with_records |-> {}]}

\* what the upstream does with the single-code query of each code
SingleAnswers == [Spellings -> {"Found", "NotFound", "Error"}]

\* code.trim().to_ascii_uppercase(), the key of the payload's records
normalize_code_key(code) == code[1]

\* one (code, result) of a job; the result carries its reference row, which
\* names the code it answers; merged tells that the error message is the
\* batch error joined with the single lookup's error
Outcome(code, result, merged) ==
    [code |-> code, result |-> result, reference_row |-> code, merged |-> merged]

\* the log entry of one upstream query and its answer
Query(kind, codes, answer) == [kind |-> kind, codes |-> codes, answer |-> answer]

\* fetch_hcpcs_batch_records on a 2xx payload: one outcome per requested code
fetch_hcpcs_batch_records_only_found(hcpcs_codes, with_records) ==
    LET found == SelectSeq(hcpcs_codes,
                           LAMBDA c : normalize_code_key(c) \in with_records)
    IN [i \in 1..Len(found) |-> Outcome(found[i], "Found", FALSE)]

fetch_hcpcs_batch_records(hcpcs_codes, with_records) ==
    [i \in 1..Len(hcpcs_codes) |->
        Outcome(hcpcs_codes[i],
                IF normalize_code_key(hcpcs_codes[i]) \in with_records
                THEN "Found" ELSE "NotFound",
                FALSE)]

\* the Err branch of resolve_hcpcs_batch: one single-code query per code
fallback_results_all_error(codes, single) ==
    [results |-> [i \in 1..Len(codes) |-> Outcome(codes[i], "Error", TRUE)],
     sent |-> <<>>]

fallback_results(codes, single) ==
    [results |-> [i \in 1..Len(codes) |->
                    Outcome(codes[i], single[codes[i]],
                            single[codes[i]] = "Error")],
     sent |-> [i \in 1..Len(codes) |->
                 Query("single", <<codes[i]>>, single[codes[i]])]]

\* resolve_hcpcs_batch: the outcomes of the job and the queries it sent
resolve_hcpcs_batch(codes, batch, single) ==
    IF codes = <<>> THEN [results |-> <<>>, sent |-> <<>>]
    ELSE IF Len(codes) = 1
    THEN [results |-> <<Outcome(codes[1], single[codes[1]], FALSE)>>,
          sent |-> <<Query("single", codes, single[codes[1]])>>]
    ELSE IF batch.ok
    THEN [results |-> fetch_hcpcs_batch_records(codes, batch.with_records),
          sent |-> <<Query("batch", codes, "Ok")>>]
    ELSE LET fallback == fallback_results(codes, single)
         IN [results |-> fallback.results,
             sent |-> <<Query("batch", codes, "Err")>> \o fallback.sent]

\* NPIs as they occur in the input, in the NPPES bulk files and in the stored
\* API responses
Npis == {1, 2, 3}

\* the rows of a primary bulk file: any NPIs, in any order, repeats included
BulkFiles == UNION {[1..n -> Npis] : n \in 0..MaxBulkRows}

\* one build of the provider artifact: the distinct NPIs of the input, the
\* weekly and monthly bulk files, the NPIs with a stored API response, and the
\* shutdown flag as loaded before finish
ExportCalls ==
    [fn : {"export_npi"}, unique_npis : {SortedSeq(S) : S \in SUBSET Npis},
     weekly : BulkFiles, monthly : BulkFiles, api_rows : SUBSET Npis,
     shutdown_requested : BOOLEAN]

\* NpiResolvedParquetExporter::try_new
\* cached tells, for each NPI, the bulk file whose record the cache holds
NewExporter(unique_npis) ==
    [remaining |-> Range(unique_npis), rows |-> <<>>,
     cached |-> [npi \in Npis |-> "none"]]

\* the test at the top of the bulk loop: rows of NPIs not in remaining are
\* skipped
BulkRowWantedAlways(exporter, npi) == TRUE

BulkRowWanted(exporter, npi) == npi \in exporter.remaining

\* write_bulk_from_primary: the rows of the file that are still wanted; a
\* file of fewer than 50,000 rows never polls the shutdown flag
RECURSIVE write_bulk_from_primary(_, _, _)
write_bulk_from_primary(exporter, file, label) ==
    IF file = <<>> THEN exporter
    ELSE IF ~BulkRowWanted(exporter, Head(file))
    THEN write_bulk_from_primary(exporter, Tail(file), label)
    ELSE LET emitted ==
                 [remaining |-> exporter.remaining \ {Head(file)},
                  rows |-> Append(exporter.rows,
                                  [npi |-> Head(file), pass |-> "bulk",
                                   source |-> label]),
                  cached |-> [exporter.cached EXCEPT ![Head(file)] = label]]
         IN IF emitted.remaining = {} THEN emitted
            ELSE write_bulk_from_primary(emitted, Tail(file), label)

\* write_remaining_from_api_responses: the stored API response of each NPI
\* still remaining, or the missing_cache sentinel
RECURSIVE write_remaining_from_api_responses(_, _, _)
write_remaining_from_api_responses(exporter, unique_npis, api_rows) ==
    IF exporter.remaining = {} \/ unique_npis = <<>> THEN exporter
    ELSE IF Head(unique_npis) \notin exporter.remaining
    THEN write_remaining_from_api_responses(exporter, Tail(unique_npis), api_rows)
    ELSE write_remaining_from_api_responses(
             [remaining |-> exporter.remaining \ {Head(unique_npis)},
              rows |-> Append(exporter.rows,
                              [npi |-> Head(unique_npis),
                               pass |-> IF Head(unique_npis) \in api_rows
                                        THEN "api" ELSE "sentinel",
                               source |-> "cache"]),
              cached |-> exporter.cached],
             Tail(unique_npis), api_rows)

\* the exporter's part of build_npi_mapping: the weekly file, the monthly
\* file, the remaining NPIs, then finish, or abort when the flag is set
export_npi(c) ==
    LET bulk == write_bulk_from_primary(
                    write_bulk_from_primary(NewExporter(c.unique_npis), c.weekly,
                                            "weekly"),
                    c.monthly, "monthly")
        all == write_remaining_from_api_responses(bulk, c.unique_npis, c.api_rows)
    IN IF c.shutdown_requested
       THEN [written |-> FALSE, rows |-> <<>>, cached |-> all.cached]
       ELSE [written |-> TRUE, rows |-> all.rows, cached |-> all.cached]

\* now_unix_seconds() at the time of a request; the values of one era have
\* the same number of decimal digits (ten, from 2001 to 2286)
RequestTimes == {10, 11, 12}

\* i64::to_string: the decimal digits, most significant first
RECURSIVE ToText(_)
ToText(n) == IF n < 10 THEN <<n>> ELSE Append(ToText(n \div 10), n % 10)

\* the comparison `a > b` of two TEXT values: byte by byte, a proper prefix
\* being the smaller
RECURSIVE TextGreater(_, _)
TextGreater(a, b) ==
    IF a = <<>> THEN FALSE
    ELSE IF b = <<>> THEN TRUE
    ELSE IF Head(a) # Head(b) THEN Head(a) > Head(b)
    ELSE TextGreater(Tail(a), Tail(b))

\* a row of the response log: its key, what it holds, and requested_at_utc
\* (NULL in a row that predates the column)
ResponseRows ==
    [npi : {1}, body : {1, 2}, requested_at_utc : {ToText(t) : t \in RequestTimes}]

NoRow == [npi |-> 0, body |-> 0, requested_at_utc |-> "NULL"]

LegacyRow == [npi |-> 1, body |-> 0, requested_at_utc |-> "NULL"]

UpsertCalls ==
    [fn : {"upsert_api_responses"}, stored : {NoRow, LegacyRow},
     rows : UNION {[1..n -> ResponseRows] : n \in 0..MaxUpserts}]

\* ON CONFLICT(npi) DO UPDATE ... WHERE excluded.requested_at_utc >
\* npi_api_responses.requested_at_utc OR npi_api_responses.requested_at_utc
\* IS NULL
ConflictUpdatesAlways(excluded, stored) == TRUE

ConflictUpdates(excluded, stored) ==
    \/ stored.requested_at_utc = "NULL"
    \/ TextGreater(excluded.requested_at_utc, stored.requested_at_utc)

\* upsert_api_responses: the statement is executed for each row in turn
RECURSIVE upsert_api_responses(_, _)
upsert_api_responses(stored, rows) ==
    IF rows = <<>> THEN stored
    ELSE upsert_api_responses(
             IF stored = NoRow \/ ConflictUpdates(Head(rows), stored)
             THEN Head(rows) ELSE stored,
             Tail(rows))

\* Provider search of the site backend. A text value is the sequence of its
\* characters.
AsciiLetters == {"A", "C", "L", "N", "Q", "R", "Y", "a", "c"}

AsciiDigits == {"1", "2", "3"}

to_uppercase(s) ==
    [i \in 1..Len(s) |-> CASE s[i] = "a" -> "A" [] s[i] = "c" -> "C"
                            [] OTHER -> s[i]]

\* the rows of provider_search, which are also the documents of the index
Providers ==
    { [npi |-> 1, name |-> "smith", state |-> <<"C", "A">>,
       taxonomy |-> <<"2", "Q">>, entity |-> "NPI-1"],
      [npi |-> 2, name |-> "smith", state |-> <<"N", "Y">>,
       taxonomy |-> <<"3", "R">>, entity |-> "NPI-2"],
      [npi |-> 3, name |-> "jones", state |-> <<"C", "A">>,
       taxonomy |-> <<"3", "R">>, entity |-> "NPI-2"] }

SearchStates ==
    {<<"C", "A">>, <<"c", "a">>, <<"N", "Y">>, <<"C", "1">>, <<"C", "A", "L">>}

SearchTaxonomies == {<<"2", "Q">>, <<"3", "R">>, <<"2", "-">>}

\* ProviderSearchParams after flatten_list (the order of a list does not
\* matter to IN (...) or to a disjunction of terms); q and entity "" stand
\* for an absent or blank parameter
SearchCalls ==
    [fn : {"provider_search"}, q : {"", "smith"},
     sort : {"name_asc", "paid_desc"},
     state : SUBSET SearchStates, taxonomy : SUBSET SearchTaxonomies,
     entity : {"", "NPI-1", "NPI-2", "NPI-3"}]

\* page 0 of the default page size holds every hit
ProviderSearchResponse(rows) ==
    [total_hits |-> Cardinality(rows), hits |-> {r.npi : r \in rows}]

duckdb_provider_search(p) ==
    LET states == {to_uppercase(v) : v \in
                     {v \in p.state :
                        Len(v) = 2 /\ \A i \in 1..Len(v) : v[i] \in AsciiLetters}}
        taxes == {t \in p.taxonomy :
                    \A i \in 1..Len(t) : t[i] \in AsciiLetters \cup AsciiDigits}
    IN  ProviderSearchResponse(
          {r \in Providers :
             /\ states # {} => r.state \in states
             /\ p.entity \in {"NPI-1", "NPI-2"} => r.entity = p.entity
             /\ taxes # {} => r.taxonomy \in taxes})

\* ProviderIndex::search: build_query puts every given value in a facet term
search(q) ==
    ProviderSearchResponse(
      {d \in Providers :
         /\ q.q # "" => d.name = q.q
         /\ q.states # {} => to_uppercase(d.state) \in q.states
         /\ q.taxonomies # {} => d.taxonomy \in q.taxonomies
         /\ q.entity # "" => d.entity = q.entity})

api_provider_search(p) ==
    IF p.q = "" /\ p.sort = "name_asc"
    THEN duckdb_provider_search(p)
    ELSE search([q |-> p.q, states |-> p.state, taxonomies |-> p.taxonomy,
                 entity |-> p.entity])

\* The recheck of cached not_found codes against the local fallback CSV.
\* What hcpcs_cache can hold when build_hcpcs_mapping opens it: per spelling
\* of a code no row, an ok row, the not_found sentinel or the error sentinel
\* (rows of one code under two spellings are what the comment in the loop
\* calls legacy rows)
RecheckCaches ==
    LET row(code, kind) ==
            [code |-> code, fields |-> IF kind = "ok" THEN 1 ELSE 0,
             status |-> kind]
    IN  {{row(code, kinds[code]) : code \in {c \in Spellings : kinds[c] # "none"}} :
           kinds \in [Spellings -> {"none", "ok", "not_found", "error"}]}

\* load_local_hcpcs_fallback_records: normalized code -> its record (2 is
\* the record of the CSV)
FallbackMaps == UNION {[keys -> {2}] : keys \in SUBSET CodeBases}

RecheckCalls ==
    [fn : {"recheck"}, rows : RecheckCaches, target_codes : CodeSeqs,
     local_fallback : FallbackMaps]

fallback_records_for_code_as_spelled(local_fallback, code) ==
    IF code[2] = "upper" /\ code[1] \in DOMAIN local_fallback
    THEN <<local_fallback[code[1]]>>
    ELSE <<>>

\* normalize_hcpcs_code(code) is the code in upper case; the result is
\* <<>> (None) or <<the record>>
fallback_records_for_code(local_fallback, code) ==
    IF code[1] \in DOMAIN local_fallback
    THEN <<local_fallback[code[1]]>>
    ELSE <<>>

\* the loop over target_codes; not_found_keys was read before the loop
RECURSIVE recheck_loop(_, _, _, _)
recheck_loop(acc, not_found_keys, codes, local_fallback) ==
    IF codes = <<>> THEN acc
    ELSE LET code == Head(codes)
             has_ok_record == \E r \in acc.rows :
                                 EqNoCase(r.code, code) /\ r.status = "ok"
             records == fallback_records_for_code(local_fallback, code)
             next ==
               IF normalize_code_key(code) \notin not_found_keys \/ has_ok_record
               THEN acc
               ELSE IF records = <<>>
               THEN [acc EXCEPT !.checked = @ + 1]
               ELSE [rows |-> {r \in acc.rows : ~EqNoCase(r.code, code)} \cup
                                {[code |-> <<code[1], "upper">>,
                                  fields |-> records[1], status |-> "ok"]},
                     checked |-> acc.checked + 1,
                     recovered |-> acc.recovered + 1]
         IN  recheck_loop(next, not_found_keys, Tail(codes), local_fallback)

recheck_cached_not_found_against_local_fallback(rows, target_codes, local_fallback) ==
    LET none == [rows |-> rows, checked |-> 0, recovered |-> 0]
        not_found_keys == {normalize_code_key(r.code) :
                             r \in {r \in rows : r.status = "not_found"}}
    IN  IF target_codes = <<>> \/ DOMAIN local_fallback = {} THEN none
        ELSE IF not_found_keys = {} THEN none
        ELSE recheck_loop(none, not_found_keys, target_codes, local_fallback)

\* The job queue of the first HCPCS round. unique_codes is what SELECT
\* DISTINCT TRIM(HCPCS_CODE) yields: spellings that differ pairwise, in any
\* order (no --max-new-lookups)
FirstRoundCalls ==
    [fn : {"first_round_queue"}, rows : RecheckCaches,
     unique_codes : {codes \in CodeSeqs :
                       \A i, j \in 1..Len(codes) : i # j => codes[i] # codes[j]},
     batch_size : 0..MaxBatchSize]

\* missing_codes of classify_for_lookup become round_codes, and the queue is
\* their chunks
first_round_queue(rows, unique_codes, batch_size) ==
    chunk_hcpcs_codes(
        classify_for_lookup("build_datasets", rows, unique_codes).missing,
        batch_size)

\* The sleeps of the retry loop of one fetch_* call. A failed attempt that
\* is followed by another is a network error or a retryable status; the
\* response may carry a Retry-After header, whose value is a text (the
\* sequence of its characters): <<>> is no header, <<text>> a header
FailedAttempts ==
    {[kind |-> "network", retry_after |-> <<>>]} \cup
    [kind : {"status"},
     retry_after : {<<>>, <<(<<"7", "5">>)>>, <<(<<"W", "e", "d">>)>>}]

RetrySleepCalls ==
    [fn : {"retry_sleeps"},
     failures : UNION {[1..n -> FailedAttempts] : n \in 1..MaxFailures}]

DecimalDigits == <<"0", "1", "2", "3", "4", "5", "6", "7", "8", "9">>

\* str::parse::<u64>: <<>> (Err) unless the text is one or more decimal digits
RECURSIVE parse_u64(_)
parse_u64(text) ==
    IF text = <<>> \/ \E i \in 1..Len(text) : text[i] \notin Range(DecimalDigits)
    THEN <<>>
    ELSE LET last == (CHOOSE d \in 1..10 : DecimalDigits[d] = text[Len(text)]) - 1
             front == SubSeq(text, 1, Len(text) - 1)
         IN  IF front = <<>> THEN <<last>>
             ELSE <<10 * parse_u64(front)[1] + last>>

\* variant: the header is not read
parse_retry_after_never(value) == <<>>

\* parse_retry_after: None without a header or with a value that is not a
\* number of seconds
parse_retry_after(value) ==
    IF value = <<>> THEN <<>> ELSE parse_u64(value[1])

\* the sleeps of the loop `for attempt in 1..=attempts`, one per failed
\* attempt, from the backoff the loop holds before that attempt
RECURSIVE retry_sleeps(_, _)
retry_sleeps(failures, backoff) ==
    IF failures = <<>> THEN <<>>
    ELSE LET failed == Head(failures)
             retry_after == IF failed.kind = "status"
                            THEN parse_retry_after(failed.retry_after)
                            ELSE <<>>
             slept == IF retry_after # <<>> THEN retry_after[1] ELSE backoff
         IN  <<slept>> \o retry_sleeps(Tail(failures), NextBackoff(backoff, 0))

\* where a bulk scan fails: nowhere, or at its i-th row while the record is
\* read, while the upsert statement is executed, or while the row is pushed to
\* the artifact's writer
ScanFailures ==
    {<<>>} \cup {<<[row |-> i, at |-> a]>> :
                    i \in 1..MaxBulkRows, a \in {"read", "upsert", "push_row"}}

\* one cache preload from a primary bulk file: the file, the NPIs still
\* remaining, the status each NPI has in npi_cache, and the failure
PreloadCalls ==
    [fn : {"preload_from_primary"}, file : BulkFiles, remaining : SUBSET Npis,
     npi_cache : [Npis -> {"none", "error"}], fails : ScanFailures]

\* the closure assigned to scan_result, from row i on: upserts are the NPIs
\* whose upsert statement has been executed in the open transaction
RECURSIVE scan_result(_, _, _, _)
scan_result(scan, file, i, fails) ==
    IF i > Len(file) THEN scan
    ELSE IF fails = <<[row |-> i, at |-> "read"]>>
    THEN [scan EXCEPT !.ok = FALSE]
    ELSE IF file[i] \notin scan.remaining
    THEN scan_result(scan, file, i + 1, fails)
    ELSE IF fails = <<[row |-> i, at |-> "upsert"]>>
    THEN [scan EXCEPT !.ok = FALSE]
    ELSE LET upserted == [scan EXCEPT !.upserts = @ \cup {file[i]}] IN
         IF fails = <<[row |-> i, at |-> "push_row"]>>
         THEN [upserted EXCEPT !.ok = FALSE]
         ELSE LET emitted == [upserted EXCEPT !.remaining = @ \ {file[i]}]
              IN IF emitted.remaining = {} THEN emitted
                 ELSE scan_result(emitted, file, i + 1, fails)

\* variant: the transaction is committed whatever the scan returned
EndOfTransactionCommits(scan_ok) == "COMMIT"

\* match scan_result: COMMIT on Ok, ROLLBACK on Err
EndOfTransaction(scan_ok) == IF scan_ok THEN "COMMIT" ELSE "ROLLBACK"

\* write_bulk_from_primary with Some(cache): BEGIN IMMEDIATE, the scan, then
\* COMMIT or ROLLBACK. npi_cache is the table as any connection reads it
\* after the return. The result of ROLLBACK is dropped: SQLite answers it
\* with an error when the failed statement has already rolled the
\* transaction back, and the transaction is over in either case
preload_from_primary(c) ==
    LET scan == scan_result([ok |-> TRUE, upserts |-> {},
                             remaining |-> c.remaining], c.file, 1, c.fails)
        statement == EndOfTransaction(scan.ok)
    IN [result |-> IF scan.ok THEN "Ok" ELSE "Err",
        upserts |-> scan.upserts,
        statement |-> statement,
        npi_cache |-> [npi \in Npis |->
                         IF statement = "COMMIT" /\ npi \in scan.upserts
                         THEN "ok" ELSE c.npi_cache[npi]]]

\* the rows one code can have in hcpcs_cache: ok rows told apart by their
\* descriptive fields, or a sentinel (fields 0)
OkRows == [fields : 1..MaxRecords, status : {"ok"}]

SentinelRow(status) == [fields |-> 0, status |-> status]

\* the records handed to replace_with_ok_records: non-empty, without repeats
RecordLists ==
    {records \in UNION {[1..n -> 1..MaxRecords] : n \in 1..MaxRecords} :
        \A i, j \in DOMAIN records : records[i] = records[j] => i = j}

\* one write to the HCPCS cache for a code, the rows the code had before it,
\* and the number of statements that had completed when the process stopped
\* (all of them when the process did not stop inside the method)
StoppedWriteCalls ==
    [fn : {"stopped_write"},
     method : {"replace_with_ok_records", "set_not_found", "set_error"},
     before : {{}, {SentinelRow("not_found")}, {SentinelRow("error")}}
                \cup (SUBSET OkRows \ {{}}),
     records : RecordLists,
     completed : 0..(MaxRecords + 1)]

\* the statements of the three methods: the DELETE of the code's rows, then
\* one INSERT per record, or the INSERT of the sentinel
WriteStatements(method, records) ==
    <<[op |-> "DELETE", row |-> SentinelRow("none")]>> \o
    (CASE method = "replace_with_ok_records" ->
            [i \in 1..Len(records) |->
                [op |-> "INSERT",
                 row |-> [fields |-> records[i], status |-> "ok"]]]
       [] method = "set_not_found" ->
            <<[op |-> "INSERT", row |-> SentinelRow("not_found")]>>
       [] OTHER ->
            <<[op |-> "INSERT", row |-> SentinelRow("error")]>>)

\* self.conn.execute of the first n statements: the connection is in
\* autocommit mode, so each statement that has completed is durable
RECURSIVE Execute(_, _, _)
Execute(rows, statements, n) ==
    IF n = 0 \/ statements = <<>> THEN rows
    ELSE Execute(IF Head(statements).op = "DELETE" THEN {}
                 ELSE rows \cup {Head(statements).row},
                 Tail(statements), n - 1)

\* the rows of the code after the process stopped and the cache is reopened
stopped_write(c) ==
    Execute(c.before, WriteStatements(c.method, c.records), c.completed)

\* the rows of the code after the whole write
NewRows(c) ==
    LET statements == WriteStatements(c.method, c.records)
    IN Execute(c.before, statements, Len(statements))

Calls ==
    RetrySleepCalls \cup PreloadCalls \cup StoppedWriteCalls \cup
    RetryDelayCalls \cup ChunkCalls \cup ResolveCalls \cup ExportCalls
        \cup UpsertCalls \cup SearchCalls \cup RecheckCalls
        \cup FirstRoundCalls

CallIdle ==
    /\ call = [fn |-> "none"]
    /\ ret = <<>>

CallInit ==
    /\ call \in Calls
    /\ ret = <<>>

\* the retry delay computed at the top of a follow-up round
ApplyRetryDelay ==
    /\ call.fn = "retry_delay"
    /\ ret = <<>>
    /\ ret' = <<RetryDelaySecs(call.base, call.round)>>
    /\ UNCHANGED <<call, notCall>>

\* the batch jobs of one round of the HCPCS pool
ApplyChunk ==
    /\ call.fn = "chunk"
    /\ ret = <<>>
    /\ ret' = <<RoundJobs("hcpcs", call.codes, call.batch_size)>>
    /\ UNCHANGED <<call, notCall>>

\* one batch job of the HCPCS pool, against an upstream that answers as it
\* likes
ApplyResolveBatch ==
    /\ call.fn = "resolve_hcpcs_batch"
    /\ ret = <<>>
    /\ \E batch \in BatchAnswers : \E single \in SingleAnswers :
         ret' = <<resolve_hcpcs_batch(call.codes, batch, single)>>
    /\ UNCHANGED <<call, notCall>>

\* one build of the provider artifact
ApplyExportNpi ==
    /\ call.fn = "export_npi"
    /\ ret = <<>>
    /\ ret' = <<export_npi(call)>>
    /\ UNCHANGED <<call, notCall>>

\* one call of upsert_api_responses on the row stored for the key
ApplyUpsertApiResponses ==
    /\ call.fn = "upsert_api_responses"
    /\ ret = <<>>
    /\ ret' = <<upsert_api_responses(call.stored, call.rows)>>
    /\ UNCHANGED <<call, notCall>>

ApplyProviderSearch ==
    /\ call.fn = "provider_search"
    /\ ret = <<>>
    /\ ret' = <<api_provider_search(call)>>
    /\ UNCHANGED <<call, notCall>>

ApplyRecheck ==
    /\ call.fn = "recheck"
    /\ ret = <<>>
    /\ ret' = <<recheck_cached_not_found_against_local_fallback(
                  call.rows, call.target_codes, call.local_fallback)>>
    /\ UNCHANGED <<call, notCall>>

ApplyFirstRoundQueue ==
    /\ call.fn = "first_round_queue"
    /\ ret = <<>>
    /\ ret' = <<first_round_queue(call.rows, call.unique_codes,
                                  call.batch_size)>>
    /\ UNCHANGED <<call, notCall>>

\* let mut backoff = Duration::from_secs(1), then the loop
ApplyRetrySleeps ==
    /\ call.fn = "retry_sleeps"
    /\ ret = <<>>
    /\ ret' = <<retry_sleeps(call.failures, 1)>>
    /\ UNCHANGED <<call, notCall>>

ApplyPreloadFromPrimary ==
    /\ call.fn = "preload_from_primary"
    /\ ret = <<>>
    /\ ret' = <<preload_from_primary(call)>>
    /\ UNCHANGED <<call, notCall>>

ApplyStoppedWrite ==
    /\ call.fn = "stopped_write"
    /\ ret = <<>>
    /\ ret' = <<stopped_write(call)>>
    /\ UNCHANGED <<call, notCall>>

CallNext ==
    \/ ApplyStoppedWrite
    \/ ApplyPreloadFromPrimary
    \/ ApplyRetrySleeps
    \/ ApplyFirstRoundQueue
    \/ ApplyRecheck
    \/ ApplyProviderSearch
    \/ ApplyRetryDelay
    \/ ApplyChunk
    \/ ApplyResolveBatch
    \/ ApplyExportNpi
    \/ ApplyUpsertApiResponses

\* C15: the wait before replay round k+1 (retry_round = k) equals
\* failure_retry_delay_seconds * 2^(k-1) seconds clamped to 3600, so it never
\* exceeds 3600 seconds.
C15_RetryDelayClamped ==
    (call.fn = "retry_delay" /\ ret # <<>>) =>
        LET factor == Pow2(call.round - 1)
            clamped == IF call.base <= 3600 \div factor
                       THEN call.base * factor ELSE 3600
        IN /\ ret[1] = clamped
           /\ ret[1] <= 3600

\* C17: a hcpcs_batch_size configured above 500 is clamped to the upstream
\* ceiling, so no batched HCPCS query carries more than 500 codes.
C17_BatchAtMostUpstreamCount ==
    (call.fn = "chunk" /\ ret # <<>>) =>
        \A i \in 1..Len(ret[1]) : Len(ret[1][i]) <= UpstreamCount

\* C18: for every batch size from 1 up, every code submitted in a batch job
\* yields exactly one outcome (Found, NotFound or Error) and exactly one
\* response row: no requested code is left without an outcome, none gets two.
C18_OneOutcomePerCode ==
    (call.fn = "resolve_hcpcs_batch" /\ ret # <<>>) =>
        LET results == ret[1].results IN
        \A c \in Range(call.codes) :
            /\ Cardinality({i \in 1..Len(results) : results[i].code = c}) = 1
            /\ Cardinality({i \in 1..Len(results) :
                               results[i].reference_row = c}) = 1
            /\ \A i \in 1..Len(results) :
                   results[i].code = c =>
                       /\ results[i].result \in {"Found", "NotFound", "Error"}
                       /\ results[i].reference_row = c

\* a batch of several codes answered in one query, some with records and
\* some without
C18_Witness ==
    /\ call.fn = "resolve_hcpcs_batch"
    /\ ret # <<>>
    /\ Len(call.codes) = MaxBatchLen
    /\ ret[1].sent = <<Query("batch", call.codes, "Ok")>>
    /\ Len(ret[1].results) = MaxBatchLen
    /\ \E i, j \in 1..Len(ret[1].results) :
          /\ ret[1].results[i].result = "Found"
          /\ ret[1].results[j].result = "NotFound"

\* C19: if a batched HCPCS query fails, every code of that batch is queried
\* with its own single-code query and receives the outcome of that query.
C19_FailedBatchFallsBackPerCode ==
    (/\ call.fn = "resolve_hcpcs_batch"
     /\ ret # <<>>
     /\ ret[1].sent # <<>>
     /\ ret[1].sent[1].kind = "batch"
     /\ ret[1].sent[1].answer = "Err") =>
        LET results == ret[1].results
            sent == ret[1].sent
        IN \A c \in Range(call.codes) :
             \E q \in 2..Len(sent) :
                /\ sent[q].kind = "single"
                /\ sent[q].codes = <<c>>
                /\ \A p \in 2..Len(sent) : sent[p].codes = <<c>> => p = q
                /\ \E i \in 1..Len(results) :
                      /\ results[i].code = c
                      /\ results[i].result = sent[q].answer

C19_Witness ==
    /\ call.fn = "resolve_hcpcs_batch"
    /\ ret # <<>>
    /\ Len(call.codes) >= 2
    /\ Len(ret[1].sent) = Len(call.codes) + 1
    /\ ret[1].sent[1].answer = "Err"
    /\ \E i, j \in 1..Len(ret[1].results) :
          /\ ret[1].results[i].result = "Found"
          /\ ret[1].results[j].result = "Error"
          /\ ret[1].results[j].merged

\* C20: in a run that is not interrupted the provider artifact has exactly
\* one row per distinct input NPI, emitted by exactly one of the bulk pass,
\* the API-response pass and the sentinel pass, and no row of an NPI outside
\* the input.
C20_OneRowPerInputNpi ==
    (call.fn = "export_npi" /\ ret # <<>> /\ ~call.shutdown_requested) =>
        LET rows == ret[1].rows IN
        /\ ret[1].written
        /\ \A npi \in Range(call.unique_npis) :
              Cardinality({i \in 1..Len(rows) : rows[i].npi = npi}) = 1
        /\ \A i \in 1..Len(rows) :
              /\ rows[i].npi \in Range(call.unique_npis)
              /\ rows[i].pass \in {"bulk", "api", "sentinel"}

\* all three passes emit, and the monthly file repeats an NPI of the weekly
\* file
C20_Witness ==
    /\ call.fn = "export_npi"
    /\ ret # <<>>
    /\ ~call.shutdown_requested
    /\ Len(call.unique_npis) = 3
    /\ {ret[1].rows[i].pass : i \in 1..Len(ret[1].rows)} =
           {"bulk", "api", "sentinel"}
    /\ \E i \in 1..Len(call.weekly) : \E j \in 1..Len(call.monthly) :
           call.weekly[i] = call.monthly[j]

\* C21: when a target NPI is in both the weekly and the monthly bulk file,
\* the weekly file is processed first and the monthly record is the one that
\* prevails for that NPI in the output artifact and in the cache.
C21_MonthlyRecordPrevails ==
    (call.fn = "export_npi" /\ ret # <<>> /\ ~call.shutdown_requested) =>
        \A npi \in Range(call.unique_npis) \cap Range(call.weekly)
                    \cap Range(call.monthly) :
            /\ ret[1].cached[npi] = "monthly"
            /\ \A i \in 1..Len(ret[1].rows) :
                  ret[1].rows[i].npi = npi => ret[1].rows[i].source = "monthly"

\* C24: for any sequence of response-log upserts for one key, in any order
\* and with the same row upserted twice, the row stored afterwards is the one
\* with the greatest requested_at_utc: an older row never overwrites a newer
\* one.
C24_NewestResponseStored ==
    (call.fn = "upsert_api_responses" /\ ret # <<>> /\ call.rows # <<>>) =>
        LET times == {t \in RequestTimes :
                        \E i \in 1..Len(call.rows) :
                            call.rows[i].requested_at_utc = ToText(t)}
            greatest == CHOOSE t \in times : \A u \in times : u <= t
            first == CHOOSE i \in 1..Len(call.rows) :
                       /\ call.rows[i].requested_at_utc = ToText(greatest)
                       /\ \A j \in 1..(i - 1) :
                             call.rows[j].requested_at_utc # ToText(greatest)
        IN ret[1] = call.rows[first]

\* a newer row followed by an older one and by the newer row again
C24_Witness ==
    /\ call.fn = "upsert_api_responses"
    /\ ret # <<>>
    /\ Len(call.rows) = 3
    /\ call.rows[1].requested_at_utc = ToText(12)
    /\ call.rows[2].requested_at_utc = ToText(10)
    /\ call.rows[2].body # call.rows[1].body
    /\ call.rows[3] = call.rows[1]
    /\ ret[1] = call.rows[1]

\* C27: in provider search, on the inverted-index path and on the
\* analytical-store path, state values that are not two ASCII letters,
\* taxonomy values that are not alphanumeric and entity values other than
\* NPI-1 / NPI-2 are dropped from the filter: the response equals that of the
\* same request without the invalid values.
C27_InvalidFilterValuesDropped ==
    (call.fn = "provider_search" /\ ret # <<>>) =>
        LET letters == AsciiLetters
            alnum == AsciiLetters \cup AsciiDigits
            valid == [call EXCEPT
                        !.state = {v \in @ : Len(v) = 2 /\ Range(v) \subseteq letters},
                        !.taxonomy = {v \in @ : Range(v) \subseteq alnum},
                        !.entity = IF @ \in {"NPI-1", "NPI-2"} THEN @ ELSE ""]
        IN  ret[1] = api_provider_search(valid)

\* C28: during the local-fallback recheck, a target code that is cached as
\* not_found and whose key is in the local fallback map is rewritten to
\* status ok with the fallback record; the counters count it as checked and
\* recovered (checked = 1, recovered = 1 when it is the only such code).
C28_NotFoundRecoveredFromFallback ==
    (call.fn = "recheck" /\ ret # <<>>) =>
        LET targets == {call.target_codes[i][1] : i \in 1..Len(call.target_codes)}
            cached_not_found ==
                {base \in targets :
                   /\ \E r \in call.rows : r.code[1] = base /\ r.status = "not_found"
                   /\ \A r \in call.rows : r.code[1] = base => r.status # "ok"}
            in_fallback == cached_not_found \cap DOMAIN call.local_fallback
        IN  /\ \A base \in in_fallback :
                 {r \in ret[1].rows : r.code[1] = base} =
                     {[code |-> <<base, "upper">>,
                       fields |-> call.local_fallback[base], status |-> "ok"]}
            /\ ret[1].recovered = Cardinality(in_fallback)
            /\ (cached_not_found = in_fallback /\ Cardinality(in_fallback) = 1) =>
                  ret[1].checked = 1

\* J1100 is cached as not_found under its lower-case spelling and is in the
\* fallback map; the run asks for it in both spellings
C28_Witness ==
    /\ call.fn = "recheck"
    /\ call.rows = {[code |-> <<"J1100", "lower">>, fields |-> 0,
                     status |-> "not_found"]}
    /\ call.target_codes = <<(<<"J1100", "lower">>), (<<"J1100", "upper">>)>>
    /\ DOMAIN call.local_fallback = {"J1100"}
    /\ ret = <<[rows |-> {[code |-> <<"J1100", "upper">>, fields |-> 2,
                           status |-> "ok"]},
                checked |-> 1, recovered |-> 1]>>

\* C30: within one round the job queue yields each cache key exactly once:
\* no identifier is dispatched twice in the round, and no two jobs of the
\* round (hence no two jobs in flight) work on the same cache key. The cache
\* key of a code is the code compared COLLATE NOCASE.
C30_EachCacheKeyOncePerRound ==
    (call.fn = "first_round_queue" /\ ret # <<>>) =>
        LET dispatched == Flatten(ret[1])
            round_codes == classify_for_lookup("build_datasets", call.rows,
                                               call.unique_codes).missing
        IN  /\ \A i, j \in 1..Len(dispatched) :
                 i # j => ~EqNoCase(dispatched[i], dispatched[j])
            /\ \A code \in Range(round_codes) :
                 \E i \in 1..Len(dispatched) : EqNoCase(dispatched[i], code)

\* C33: within one request, in the absence of a Retry-After header, the
\* sleep taken after the i-th failed attempt (i >= 1) is min(2^(i-1), 60)
\* seconds: the backoff starts at 1 s, doubles after every retry, and never
\* exceeds 60 s.
C33_BackoffDoublesCappedAt60 ==
    (call.fn = "retry_sleeps" /\ ret # <<>>) =>
        /\ Len(ret[1]) = Len(call.failures)
        /\ \A i \in 1..Len(call.failures) :
              call.failures[i].retry_after = <<>> =>
                  ret[1][i] = Min(Pow2(i - 1), 60)

\* seven attempts failed without a header: the sleeps are 1, 2, 4, 8, 16, 32
\* and 60 seconds
C33_Witness ==
    /\ call.fn = "retry_sleeps"
    /\ Len(call.failures) = MaxFailures
    /\ \A i \in 1..Len(call.failures) : call.failures[i].retry_after = <<>>
    /\ call.failures[1].kind = "network"
    /\ call.failures[2].kind = "status"
    /\ ret # <<>>
    /\ SubSeq(ret[1], 1, 7) = <<1, 2, 4, 8, 16, 32, 60>>

\* C34: when a retryable response carries a numeric Retry-After header of s
\* seconds, the request sleeps s seconds before its next attempt instead of
\* the current backoff (here s = 75).
C34_RetryAfterOverridesBackoff ==
    (call.fn = "retry_sleeps" /\ ret # <<>>) =>
        \A i \in 1..Len(call.failures) :
            LET failed == call.failures[i] IN
            (failed.kind = "status" /\ failed.retry_after = <<(<<"7", "5">>)>>) =>
                ret[1][i] = 75

\* the first response is a 429 with Retry-After: 75, above the cap of the
\* backoff; the second has an HTTP-date, the third no header
C34_Witness ==
    /\ call.fn = "retry_sleeps"
    /\ Len(call.failures) = 3
    /\ call.failures[1] = [kind |-> "status", retry_after |-> <<(<<"7", "5">>)>>]
    /\ call.failures[2] = [kind |-> "status",
                           retry_after |-> <<(<<"W", "e", "d">>)>>]
    /\ call.failures[3] = [kind |-> "status", retry_after |-> <<>>]
    /\ ret = <<(<<75, 2, 4>>)>>

\* C36: if the bulk preload scan fails at any row, the cache transaction
\* opened for that scan is rolled back before the error is propagated, so
\* none of the cache upserts made during that scan become visible.
C36_FailedScanRolledBack ==
    (call.fn = "preload_from_primary" /\ ret # <<>>) =>
        /\ ret[1].result = "Err" <=> ret[1].statement = "ROLLBACK"
        /\ ret[1].result = "Err" => ret[1].npi_cache = call.npi_cache
        /\ ret[1].result = "Ok" =>
              \A npi \in ret[1].upserts : ret[1].npi_cache[npi] = "ok"

\* the first row was upserted and emitted, the second was upserted and its
\* push to the writer failed: both rows keep what the cache had
C36_Witness ==
    /\ call.fn = "preload_from_primary"
    /\ call.file = <<1, 2>>
    /\ call.npi_cache = [npi \in Npis |-> IF npi = 1 THEN "error" ELSE "none"]
    /\ call.fails = <<[row |-> 2, at |-> "push_row"]>>
    /\ ret # <<>>
    /\ ret[1].result = "Err"
    /\ ret[1].upserts = {1, 2}
    /\ ret[1].npi_cache = call.npi_cache

\* C39: an HCPCS cache write is atomic with respect to a process stop: if the
\* process dies at any point inside replace_with_ok_records, set_not_found or
\* set_error, the code afterwards has either all of its previous rows or all
\* of its new rows, never zero rows and never a strict subset of the new rows.
C39_WriteAtomicUnderStop ==
    (call.fn = "stopped_write" /\ ret # <<>>) =>
        ret[1] \in {call.before, NewRows(call)}

(***************************************************************************)
(* The producers of file outputs: the columnar writer (StringParquetWriter) *)
(* with its temp file, and the paths they write.                           *)
(***************************************************************************)
NoIndex == [exists |-> FALSE, marker |-> FALSE, state |-> "none"]

DiskIdle ==
    /\ disk = [output |-> Absent, tmp |-> Absent, index |-> NoIndex]
    /\ producer = [kind |-> "none", pc |-> "done"]

\* a columnar writer about to be created for an output of total rows (the
\* rows are numbered in the order they are pushed), over
\* the output an earlier run left and a temp file an earlier crash left
WriterJobs ==
    [kind : {"parquet_writer"}, pc : {"start"}, total : 0..MaxRows,
     batch_size : 0..MaxWriterBatch, pushed : {0}, rows_in_batch : {0},
     before : {Absent, Prior}]

\* a CSV output about to be written: the NPI mapping CSV (export_mapping_csv)
\* or a triage CSV (write_triage_rows)
CsvJobs ==
    [kind : {"mapping_csv", "triage_csv"}, pc : {"start"}, total : 0..MaxRows,
     written : {0}, before : {Absent, Prior}]

\* what an earlier build can have left at index_dir: nothing, a committed
\* index with or without its _SUCCESS marker, or the remains of a build that
\* failed before its commit
IndexStates ==
    {NoIndex} \cup
    [exists : {TRUE}, marker : {TRUE}, state : {"committed"}] \cup
    [exists : {TRUE}, marker : {FALSE},
     state : {"none", "uncommitted", "committed"}]

\* build_provider_index and build_hcpcs_index about to run
IndexJobs ==
    [kind : {"provider_index", "hcpcs_index"}, pc : {"start"},
     rebuild : BOOLEAN, before : IndexStates, removed : {FALSE},
     result : {"none"}]

DiskJobs == WriterJobs \cup CsvJobs \cup IndexJobs

DiskInit ==
    /\ producer \in DiskJobs
    /\ IF producer \in IndexJobs
       THEN disk = [output |-> Absent, tmp |-> Absent, index |-> producer.before]
       ELSE \E tmp \in {Absent, Prior} :
              disk = [output |-> producer.before, tmp |-> tmp, index |-> NoIndex]

\* StringParquetWriter::try_new: File::create truncates the temp path
try_new ==
    /\ producer.kind = "parquet_writer"
    /\ producer.pc = "start"
    /\ disk' = [disk EXCEPT !.tmp = NewFile({}, (1..producer.total))]
    /\ producer' = [producer EXCEPT !.pc = "open", !.batch_size = Max(producer.batch_size, 1)]
    /\ UNCHANGED notDisk

\* flush_batch: the buffered rows go to the temp file
flush_batch(d, j) ==
    [d EXCEPT !.tmp = NewFile((1..j.pushed), (1..j.total))]

\* push_row: the row is buffered, and the buffer is flushed when it holds
\* batch_size rows
push_row ==
    /\ producer.kind = "parquet_writer"
    /\ producer.pc = "open"
    /\ producer.pushed < producer.total
    /\ LET pushed == [producer EXCEPT !.pushed = producer.pushed + 1,
                                !.rows_in_batch = producer.rows_in_batch + 1]
       IN IF pushed.rows_in_batch >= pushed.batch_size
          THEN /\ disk' = flush_batch(disk, pushed)
               /\ producer' = [pushed EXCEPT !.rows_in_batch = 0]
          ELSE /\ producer' = pushed
               /\ UNCHANGED disk
    /\ UNCHANGED notDisk

\* finish, called when every row was pushed: flush, close, rename the temp
\* file over the output path
finish ==
    /\ producer.kind = "parquet_writer"
    /\ producer.pc = "open"
    /\ producer.pushed = producer.total
    /\ disk' = [disk EXCEPT !.output = flush_batch(disk, producer).tmp,
                            !.tmp = Absent]
    /\ producer' = [producer EXCEPT !.pc = "finished", !.rows_in_batch = 0]
    /\ UNCHANGED notDisk

\* what abort leaves on disk: the writer is closed and the temp file removed
AbortedDiskRenamed(d) == [d EXCEPT !.output = d.tmp, !.tmp = Absent]

AbortedDisk(d) == [d EXCEPT !.tmp = Absent]

\* abort, called at any point after try_new
abort ==
    /\ producer.kind = "parquet_writer"
    /\ producer.pc = "open"
    /\ disk' = AbortedDisk(disk)
    /\ producer' = [producer EXCEPT !.pc = "aborted"]
    /\ UNCHANGED notDisk

\* the path the csv::Writer is opened on: export_mapping_csv opens
\* <output>.tmp, write_triage_rows opens the path it is given, which is the
\* final path
CsvTarget(kind) == IF kind = "mapping_csv" THEN "tmp" ELSE "output"

\* Writer::from_path creates or truncates the file
csv_from_path ==
    /\ producer.kind \in {"mapping_csv", "triage_csv"}
    /\ producer.pc = "start"
    /\ disk' = [disk EXCEPT ![CsvTarget(producer.kind)] =
                                NewFile({}, 1..producer.total)]
    /\ producer' = [producer EXCEPT !.pc = "writing"]
    /\ UNCHANGED notDisk

\* write_record: one more row reaches the file
csv_write_record ==
    /\ producer.kind \in {"mapping_csv", "triage_csv"}
    /\ producer.pc = "writing"
    /\ producer.written < producer.total
    /\ disk' = [disk EXCEPT ![CsvTarget(producer.kind)] =
                                NewFile(1..(producer.written + 1),
                                        1..producer.total)]
    /\ producer' = [producer EXCEPT !.written = producer.written + 1]
    /\ UNCHANGED notDisk

\* flush, and in export_mapping_csv the rename of the temp file over the
\* output path
csv_flush ==
    /\ producer.kind \in {"mapping_csv", "triage_csv"}
    /\ producer.pc = "writing"
    /\ producer.written = producer.total
    /\ disk' = IF producer.kind = "mapping_csv"
               THEN [disk EXCEPT !.output = disk.tmp, !.tmp = Absent]
               ELSE disk
    /\ producer' = [producer EXCEPT !.pc = "finished"]
    /\ UNCHANGED notDisk

\* index_dir.exists() && !rebuild && success_marker.exists(): the index is
\* kept and the build returns at once
ReusesIndexWithoutMarker(index, rebuild) == index.exists /\ ~rebuild

ReusesIndex(index, rebuild) == index.exists /\ ~rebuild /\ index.marker

\* the build returns: Ok(()) or the error of the step that failed
IndexReturns(result) == [producer EXCEPT !.pc = "done", !.result = result]

\* the top of build_*_index: reuse the index, or remove an existing
\* directory (remove_dir_all can fail)
index_enter ==
    /\ producer.kind \in {"provider_index", "hcpcs_index"}
    /\ producer.pc = "start"
    /\ IF ReusesIndex(disk.index, producer.rebuild)
       THEN /\ producer' = IndexReturns("ok")
            /\ UNCHANGED disk
       ELSE IF disk.index.exists
       THEN \/ /\ disk' = [disk EXCEPT !.index = NoIndex]
               /\ producer' = [producer EXCEPT !.pc = "create", !.removed = TRUE]
            \/ /\ producer' = IndexReturns("err")
               /\ UNCHANGED disk
       ELSE /\ producer' = [producer EXCEPT !.pc = "create"]
            /\ UNCHANGED disk
    /\ UNCHANGED notDisk

\* create_dir_all, Index::create_in_dir, the writer and the scan that adds
\* the documents: each `?` returns the error and leaves what was created
index_create_and_fill ==
    /\ producer.kind \in {"provider_index", "hcpcs_index"}
    /\ producer.pc = "create"
    /\ \/ /\ disk' = [disk EXCEPT !.index = [exists |-> TRUE, marker |-> FALSE,
                                               state |-> "uncommitted"]]
          /\ producer' = [producer EXCEPT !.pc = "commit"]
       \/ /\ \E left \in {NoIndex,
                            [exists |-> TRUE, marker |-> FALSE, state |-> "none"],
                            [exists |-> TRUE, marker |-> FALSE,
                             state |-> "uncommitted"]} :
                disk' = [disk EXCEPT !.index = left]
          /\ producer' = IndexReturns("err")
    /\ UNCHANGED notDisk

\* writer.commit()?
index_commit ==
    /\ producer.kind \in {"provider_index", "hcpcs_index"}
    /\ producer.pc = "commit"
    /\ \/ /\ disk' = [disk EXCEPT !.index.state = "committed"]
          /\ producer' = [producer EXCEPT !.pc = "marker"]
       \/ /\ producer' = IndexReturns("err")
          /\ UNCHANGED disk
    /\ UNCHANGED notDisk

\* let _ = std::fs::write(&success_marker, "ok\n"); Ok(()): the result of the
\* write is discarded
index_write_marker ==
    /\ producer.kind \in {"provider_index", "hcpcs_index"}
    /\ producer.pc = "marker"
    /\ \/ disk' = [disk EXCEPT !.index.marker = TRUE]
       \/ UNCHANGED disk
    /\ producer' = IndexReturns("ok")
    /\ UNCHANGED notDisk

DiskNext ==
    \/ index_enter
    \/ index_create_and_fill
    \/ index_commit
    \/ index_write_marker
    \/ try_new
    \/ push_row
    \/ finish
    \/ abort
    \/ csv_from_path
    \/ csv_write_record
    \/ csv_flush

C23_FinalPathNeverPartial ==
    ~Partial(disk.output)

\* C25: after a provider index build ends, successfully or with a failure at
\* any step, the _SUCCESS marker exists in the index directory if and only if
\* the index commit returned successfully.
C25_MarkerIffCommitted ==
    (producer.kind = "provider_index" /\ producer.pc = "done") =>
        (disk.index.marker <=> disk.index.state = "committed")

\* C26: when a rebuild is not requested, an existing index directory is
\* rebuilt exactly when it lacks the _SUCCESS marker: a directory with the
\* marker is reused unchanged, one without it is removed and rebuilt.
C26_RebuiltIffMarkerMissing ==
    (/\ producer.kind \in {"provider_index", "hcpcs_index"}
     /\ ~producer.rebuild
     /\ producer.before.exists) =>
        /\ producer.before.marker =>
              /\ ~producer.removed
              /\ disk.index = producer.before
              /\ producer.pc = "done" => producer.result = "ok"
        /\ ~producer.before.marker =>
              /\ producer.pc \in {"create", "commit", "marker"} => producer.removed
              /\ (producer.pc = "done" /\ producer.result = "ok") =>
                    /\ producer.removed
                    /\ disk.index.exists
                    /\ disk.index.state = "committed"

\* the remains of a failed build were removed and the index built anew
C26_Witness ==
    /\ producer.kind = "hcpcs_index"
    /\ ~producer.rebuild
    /\ producer.before = [exists |-> TRUE, marker |-> FALSE, state |-> "uncommitted"]
    /\ producer.pc = "done"
    /\ producer.result = "ok"
    /\ producer.removed
    /\ disk.index = [exists |-> TRUE, marker |-> TRUE, state |-> "committed"]

(***************************************************************************)
(* The specifications.                                                     *)
(***************************************************************************)
InitPool == PoolInit /\ RateIdle /\ CacheIdle /\ MainIdle /\ CallIdle /\ DiskIdle

SpecPool == InitPool /\ [][PoolNext]_vars

\* the pool under a scheduler that runs it whenever it can take a step, every
\* upstream request returning in the end
SpecPoolFair == InitPool /\ [][PoolNext]_vars /\ WF_vars(PoolProgress)

InitRate == RateInit /\ PoolIdle /\ CacheIdle /\ MainIdle /\ CallIdle /\ DiskIdle

SpecRate == InitRate /\ [][RateNext]_vars

InitCache == CacheInit /\ PoolIdle /\ RateIdle /\ MainIdle /\ CallIdle /\ DiskIdle

SpecCache == InitCache /\ [][CacheNext]_vars

InitMain == MainInit /\ PoolIdle /\ RateIdle /\ CacheIdle /\ CallIdle /\ DiskIdle

SpecMain == InitMain /\ [][MainNext]_vars

InitCall == CallInit /\ PoolIdle /\ RateIdle /\ CacheIdle /\ MainIdle /\ DiskIdle

SpecCall == InitCall /\ [][CallNext]_vars

InitDisk == DiskInit /\ PoolIdle /\ RateIdle /\ CacheIdle /\ MainIdle /\ CallIdle

SpecDisk == InitDisk /\ [][DiskNext]_vars

(***************************************************************************)
(* Claims about the pool.                                                  *)
(***************************************************************************)
\* C31 as stated: every job dispatched in a round k >= 2 is for an identifier
\* that was attempted and resolved to Error in round k-1.
C31_AsStated ==
    (pc \in {"seed", "drain"} /\ retry_round >= 1) =>
        InFlightIds \subseteq round_log.prior_errors

\* C31, amended: every job dispatched in a round k >= 2 is for an identifier
\* that resolved to Error in round k-1 or was still undispatched in the queue
\* of round k-1 when that round ended.
C31_RetriesErrorsAndUndispatched ==
    (pc \in {"seed", "drain"} /\ retry_round >= 1) =>
        /\ InFlightIds \subseteq
              round_log.prior_errors \cup round_log.prior_undispatched
        /\ Range(round_npis) =
              round_log.prior_errors \cup round_log.prior_undispatched

\* round 2 has dispatched an identifier that resolved to Error in round 1 and
\* one that round 1 never dispatched
C31_Witness ==
    /\ pc = "drain"
    /\ retry_round = 1
    /\ \E e \in round_log.prior_errors :
         \E u \in round_log.prior_undispatched \ round_log.prior_errors :
            {e, u} \subseteq InFlightIds

\* C32: if the shutdown flag is set during a per-round retry cool-down, the
\* pool observes it within one polling period of one second (at the flag
\* load that follows the one-second sleep in progress, which is the pool's
\* next step), starts no further round, and returns with interrupted = true.
C32_CooldownObservesShutdown ==
    [][(pc = "cooldown" /\ shutdown_requested) =>
          /\ pc' = "returned"
          /\ pool_result' = "ok"
          /\ interrupted'
          /\ in_flight' = {}
          /\ retry_round' = retry_round
          /\ cache' = cache]_vars

\* the flag was set while seconds of a cool-down were left, and the pool has
\* returned without running the round the cool-down preceded
C32_Witness ==
    /\ pc = "returned"
    /\ pool_result = "ok"
    /\ interrupted
    /\ shutdown_requested
    /\ retry_round >= 1
    /\ countdown_left > 0
    /\ round_npis # <<>>
    /\ at_stop.pending
    /\ at_stop.flight = {}

\* C37: a failure that concerns a single identifier is caught and stored as
\* that identifier's error outcome: the pool returns an error only after a
\* cache write has failed, an identifier that resolved to Error in this round
\* has status error in the cache, and a pool that returns Ok without having
\* been interrupted has settled every identifier it was given.
C37_IdentifierErrorsStoredNotPropagated ==
    /\ pool_result = "err" => round_log.storage_failed
    /\ \A id \in round_log.errors : cache[id] = "error"
    /\ (pool_result = "ok" /\ ~interrupted) =>
          \A i \in 1..Len(missing) :
              cache[missing[i]] \in {"ok", "not_found", "error"}

\* with no replay round, the first identifier failed and the others were
\* dispatched and settled after it
C37_Witness ==
    /\ args.failure_retry_rounds = 0
    /\ Len(missing) = NumIds
    /\ pool_result = "ok"
    /\ ~interrupted
    /\ ~shutdown_requested
    /\ cache[1] = "error"
    /\ \A id \in Ids \ {1} : cache[id] = "ok"
    /\ tally = [found |-> NumIds - 1, not_found |-> 0, failed |-> 1]

\* every identifier handed to the pool has a settled status and is counted in
\* exactly one of the three counters
AllSettledOnce ==
    LET given == {missing[i] : i \in 1..Len(missing)}
        with(status) == Cardinality({id \in given : cache[id] = status})
    IN /\ \A id \in given : cache[id] \in {"ok", "not_found", "error"}
       /\ tally.found = with("ok")
       /\ tally.not_found = with("not_found")
       /\ tally.failed = with("error")
       /\ tally.found + tally.not_found + tally.failed = Len(missing)

\* C38: if the shutdown flag is never set and no cache write fails, then,
\* every upstream request returning in the end, the pool eventually returns
\* with every input identifier settled exactly once and
\* found + not_found + failed = total, for every configuration (concurrency 0
\* and failure_retry_rounds 0 included) and also for the identifiers that
\* were still undispatched when the round's first Error arrived.
C38_PoolTerminatesAllSettled ==
    <>(\/ shutdown_requested
       \/ round_log.storage_failed
       \/ /\ pc = "returned"
          /\ pool_result = "ok"
          /\ ~interrupted
          /\ AllSettledOnce)

\* a pool with concurrency 0 and one replay round has returned from its
\* second round: the first identifier, the first to be dispatched, failed in
\* the first round while the others were undispatched, and failed again in
\* the second, where the others were found
C38_Witness ==
    /\ args.concurrency = 0
    /\ args.failure_retry_rounds = 1
    /\ Len(missing) = NumIds
    /\ pc = "returned"
    /\ pool_result = "ok"
    /\ ~shutdown_requested
    /\ pool_kind = "npi"
    /\ retry_round = 1
    /\ round_log.prior_errors = {1}
    /\ cache[1] = "error"
    /\ tally = [found |-> NumIds - 1, not_found |-> 0, failed |-> 1]
    /\ AllSettledOnce

\* C2: the number of jobs in flight never exceeds max(concurrency, 1); with
\* concurrency = 0 the pool runs as with concurrency = 1.
C2_InFlightBounded ==
    Cardinality(in_flight) <=
        (IF args.concurrency >= 1 THEN args.concurrency ELSE 1)

\* concurrency = 0, one job in flight and more waiting in the queue
C2_Witness ==
    /\ args.concurrency = 0
    /\ Cardinality(in_flight) = 1
    /\ queue # <<>>

\* C3: from a state in which the shutdown flag is set, no step of the pool,
\* in this round or a later one, puts a new job in flight.
C3_NoDispatchAfterShutdown ==
    [][shutdown_requested => in_flight' \subseteq in_flight]_vars

\* the flag is set, a job that was in flight has been handled since, and the
\* queue still holds jobs that were not dispatched
C3_Witness ==
    /\ shutdown_requested
    /\ pc = "drain"
    /\ at_stop.flight # {}
    /\ owed = {}
    /\ in_flight = {}
    /\ queue # <<>>

\* C13: no identifier in flight has resolved to ok or not_found in this run.
\* The pool starts from identifiers without such a row and a resolution is
\* written when the job leaves in_flight, so an identifier dispatched after it
\* resolved, in the same round or a later one, would be in flight with an ok
\* or not_found row.
C13_ResolvedNeverDispatchedAgain ==
    \A id \in InFlightIds : cache[id] \notin {"ok", "not_found"}

\* a retry round: an identifier that resolved to Error is in flight again while
\* another identifier of the run has resolved to ok or not_found
C13_Witness ==
    /\ retry_round >= 1
    /\ \E id \in InFlightIds : cache[id] = "error"
    /\ \E id \in Ids : cache[id] \in {"ok", "not_found"}

\* C14 (as amended): with rounds numbered from 1, errors of round k are queued
\* for round k+1 only if k <= failure_retry_rounds; no round numbered above
\* failure_retry_rounds + 1 is ever run, so the pool ends after at most
\* failure_retry_rounds + 1 rounds (the first pass and that many follow-ups).
C14_RoundsBoundedByRetryRoundsPlusOne ==
    /\ retry_round + 1 <= args.failure_retry_rounds + 1
    /\ next_round_npis # <<>> => retry_round + 1 <= args.failure_retry_rounds

\* the run ended uninterrupted after its last permitted follow-up round, in
\* which an identifier resolved to Error and was counted failed, not queued
C14_Witness ==
    /\ args.failure_retry_rounds >= 1
    /\ retry_round = args.failure_retry_rounds
    /\ pc = "returned"
    /\ pool_result = "ok"
    /\ ~shutdown_requested
    /\ tally.failed > 0
    /\ \E id \in Ids : cache[id] = "error"

\* C14 as stated: no job is in flight in a round numbered above
\* max(failure_retry_rounds, 1)
C14_AsStated ==
    in_flight # {} =>
        retry_round + 1 <= Max(args.failure_retry_rounds, 1)

\* C4 (as amended): when the pool returns Ok, every identifier that was in
\* flight at the moment the flag was set has had its outcome written to the
\* cache. A failed cache write returns the storage error at once instead.
C4_InFlightWrittenBeforeOkReturn ==
    pool_result = "ok" => owed = {}

\* the pool returned Ok after the flag was set with jobs in flight
C4_Witness ==
    /\ pool_result = "ok"
    /\ at_stop.flight # {}
    /\ owed = {}
    /\ \A id \in at_stop.flight : cache[id] # "none"

\* C4 as stated: whenever the pool has returned, every identifier that was in
\* flight when the flag was set has been written
C4_AsStated ==
    pc = "returned" => owed = {}

\* C5 (as amended): if the flag was set while the pool had undispatched or
\* in-flight jobs or was in a retry cool-down, and the pool returns Ok, it
\* returns interrupted = true. A failed cache write returns the storage error.
C5_InterruptedReportedOnOkReturn ==
    (pool_result = "ok" /\ at_stop.pending) => interrupted

\* the flag was set during the cool-down and the pool returned interrupted
C5_Witness ==
    /\ pool_result = "ok"
    /\ at_stop.pending
    /\ interrupted
    /\ retry_round > 0
    /\ countdown_left > 0

\* C5 as stated: whenever the flag was set while the pool had work, the pool's
\* return is Ok with interrupted = true
C5_AsStated ==
    (pc = "returned" /\ at_stop.pending) =>
        (pool_result = "ok" /\ interrupted)

(***************************************************************************)
(* Claims about the run of main().                                         *)
(***************************************************************************)
\* C6: once the shutdown flag is set, neither columnar artifact at its final
\* path is a file of this run that lacks rows a complete file holds: the path
\* holds the prior artifact or a complete new one.
C6_NoPartialArtifact ==
    shutdown_requested =>
        /\ ~Partial(files["npi_parquet"])
        /\ ~Partial(files["hcpcs_parquet"])

\* the final paths of the mapping CSVs and of the columnar artifacts
FinalPaths == {"npi_mapping_csv", "hcpcs_mapping_csv", "npi_parquet",
               "hcpcs_parquet"}

\* C40: when the two builders run concurrently and one of them fails, the
\* other is dropped at the suspension point it has reached; even then no
\* columnar artifact or mapping CSV at a final path has been replaced by a
\* partial file, and every cache row that is visible is a complete row: the
\* outcomes the dropped builder had written are settled rows, and the
\* identifier whose lookup was in flight has the row it had before.
C40_DroppedBuilderLeavesNoPartialOutput ==
    \A k \in Kinds :
        builder[k].pc = "dropped" =>
            /\ should_build[k] /\ should_build[Other(k)]
            /\ builder[Other(k)].pc = "failed"
            /\ main_pc = "done" /\ main_result = "err"
            /\ \A p \in FinalPaths : ~Partial(files[p])
            /\ \A id \in builder[k].rows :
                  store[k][id] \in {"ok", "not_found", "error"}
            /\ \A id \in builder[k].attempted \ builder[k].rows :
                  store[k][id] \in {"none", "error"}

\* the HCPCS builder failed on a cache write while the provider builder was
\* waiting for its lookup of NPI 2, its temporary file holding the bulk rows
\* only: the provider builder was dropped, and the artifact of the earlier
\* run is still at the final path
C40_Witness ==
    /\ builder["hcpcs"].pc = "failed"
    /\ builder["npi"].pc = "dropped"
    /\ builder["npi"].attempted = {2}
    /\ builder["npi"].rows = {}
    /\ Partial(files["npi_parquet_tmp"])
    /\ files["npi_parquet"] = Prior
    /\ store["npi"][2] = "error"
    /\ main_result = "err"

\* C7: the upload step is invoked only from a state in which no builder
\* reported interrupted and the shutdown flag is not set.
C7_NoUploadWhenInterrupted ==
    [][(~upload_invoked /\ upload_invoked') =>
          (~main_interrupted /\ ~shutdown_requested)]_vars

\* both builders returned not interrupted, the flag was set before the test
\* that precedes the upload, and the run ended without the upload
C7_Witness ==
    /\ main_pc = "done"
    /\ main_result = "ok"
    /\ ~main_interrupted
    /\ shutdown_requested
    /\ ~upload_invoked
    /\ \E k \in Kinds : should_build[k] /\ builder[k].attempted # {}

C10_ErrorRetriedNextRun ==
    (main_pc = "done" /\ main_result = "ok" /\ ~main_interrupted /\
     ~shutdown_requested /\ ~margs.reset_map /\ ~margs.rebuild_map /\
     ~margs.skip_api) =>
        \A k \in Kinds : \A id \in MainIds :
            at_start[k][id] = "error" =>
                (id \in builder[k].attempted \/ store[k][id] = "ok")

====
